---- MODULE Spec2Model ----
(***************************************************************************)
(* Match Escrow Vault (contracts/match_escrow_vault/src/lib.rs).           *)
(*                                                                         *)
(* The contract's storage, the token ledger it moves value on and the role *)
(* oracle it consults are the state; every public entry point is one       *)
(* action.  A Soroban invocation that panics is rolled back by the host,   *)
(* so a failed call leaves storage and balances as they were: it is a      *)
(* step that changes nothing, and its error is the result of the handler   *)
(* operator evaluated in that state.                                       *)
(***************************************************************************)
EXTENDS Integers, FiniteSets, Sequences, TLC

\* ------------------------------------------------------------------ bounds
MaxAmount == 2
InitialBalance == 3
MaxTime == 2
\* the width in bits of the signed amount type, standing for the 128 of i128
IntWidth == 5
IntMax == 2 ^ (IntWidth - 1) - 1

\* ------------------------------------------------------------- the universe
MatchIds == {"m1", "m2"}
Players == {"alice", "bob"}
Addresses == {"admin", "alice", "bob", "carol"}
Assets == {"TOK"}
IdentityContracts == {"identity"}
NoAddress == "none"
Vault == "vault"
Holders == Addresses \cup {Vault}
RoleIds == 0..2

\* EscrowState (repr u32)
AwaitingDeposits == 0
PlayerADeposited == 1
PlayerBDeposited == 2
FullyFunded == 3
Locked == 4
Released == 5
Refunded == 6
Disputed == 7

\* Option<u64>
None == <<>>
Some(t) == <<t>>

\* panic messages
ErrAlreadyInitialized == "already initialized"
ErrNotInitialized == "not initialized"
ErrPaused == "contract is paused"
ErrExists == "escrow already exists"
ErrAmount == "amount must be positive"
ErrSamePlayer == "players must be different"
ErrNotFound == "escrow not found"
ErrNotInMatch == "player not in match"
ErrADeposited == "player A already deposited"
ErrBDeposited == "player B already deposited"
ErrDepositState == "invalid escrow state for deposit"
ErrNotFullyFunded == "escrow not fully funded"
ErrNotLocked == "escrow not locked"
ErrWinner == "winner not in match"
ErrFinalized == "escrow already finalized"
ErrNotDisputed == "escrow not disputed"
ErrResolver == "resolver not authorized"
ErrNoIdentity == "identity contract not set"
ErrNoTreasury == "treasury not set"
ErrSlashBalance == "insufficient balance for slash"
ErrReentrancy == "reentrancy detected"
\* host errors: a failed require_auth, a token transfer the ledger rejects
ErrAuth == "unauthorized"
ErrTransfer == "transfer failed"
ErrOverflow == "arithmetic overflow"
Ok == "ok"

VARIABLES
    admin,              \* DataKey::Admin (instance storage), NoAddress when absent
    paused,             \* DataKey::Paused
    treasury,           \* DataKey::Treasury, NoAddress when absent
    match_contract,     \* DataKey::MatchContract, NoAddress when absent
    identity_contract,  \* DataKey::IdentityContract, NoAddress when absent
    escrows,            \* DataKey::Escrow(match_id) -> EscrowData (persistent storage)
    guards,             \* the match ids whose DataKey::ReentrancyGuard is present
    balances,           \* the token ledger: asset -> holder -> amount
    roles,              \* the identity contract's get_role
    now,                \* env.ledger().timestamp()
    deposited,          \* per match: total value transferred into custody for it
    paid,               \* per match: total value transferred out of custody for it
    payouts,            \* per match: the successful release_to_winner/resolve_dispute calls
    last,               \* the last invocation that took effect: entry point, match
                        \* and the state the match's record was in before it
    pending             \* the invocation that is inside its token transfer, if any:
                        \* entry point, match, the record it read and the party paid

vars == <<admin, paused, treasury, match_contract, identity_contract, escrows, guards, balances,
          roles, now, deposited, paid, payouts, last, pending>>

\* The storage and ledgers an invocation reads and writes.
World ==
    [admin |-> admin, paused |-> paused, treasury |-> treasury,
     match_contract |-> match_contract,
     identity_contract |-> identity_contract, escrows |-> escrows,
     guards |-> guards, balances |-> balances, roles |-> roles, now |-> now]

\* A panic: the host rolls the invocation back.
Fail(w, msg) == [w |-> w, result |-> msg, events |-> 0]
Done(w, n) == [w |-> w, result |-> Ok, events |-> n]

\* ------------------------------------------------------------ token ledger
balance(w, asset, holder) == w.balances[asset][holder]

\* C15 mutant: the ledger lets a holder overdraw
can_transfer_overdraft(w, asset, from, amount) == amount >= 0

can_transfer(w, asset, from, amount) ==
    amount >= 0 /\ balance(w, asset, from) >= amount

transfer(w, asset, from, to, amount) ==
    [w EXCEPT !.balances[asset] =
        [[@ EXCEPT ![from] = @ - amount] EXCEPT ![to] = @ + amount]]

\* ------------------------------------------------------------- the helpers
has_escrow(w, match_id) == match_id \in DOMAIN w.escrows

\* C25 mutant: a write of one record overwrites every stored record
put_escrow_everywhere(w, match_id, escrow) ==
    [w EXCEPT !.escrows =
        [k \in (DOMAIN w.escrows) \cup {match_id} |-> escrow]]

put_escrow(w, match_id, escrow) ==
    [w EXCEPT !.escrows =
        [k \in (DOMAIN w.escrows) \cup {match_id} |->
            IF k = match_id THEN escrow ELSE w.escrows[k]]]

\* C28 mutant: the pause flag is not consulted
require_not_paused_ignored(w) == TRUE

require_not_paused(w) == ~w.paused

\* Ok, or the panic of require_admin for an invocation authorized by caller
require_admin(w, caller) ==
    IF w.admin = NoAddress THEN ErrNotInitialized
    ELSE IF caller # w.admin THEN ErrAuth
    ELSE Ok

require_match_contract_or_admin(w, caller) ==
    IF w.admin = NoAddress THEN ErrNotInitialized
    ELSE IF caller # w.admin THEN ErrAuth
    ELSE Ok

\* C11 mutant: without an identity contract every resolver is accepted
require_resolver_role_no_oracle(w, resolver) ==
    IF w.admin = NoAddress THEN ErrNotInitialized
    ELSE IF resolver = w.admin THEN Ok
    ELSE IF w.identity_contract = NoAddress THEN Ok
    ELSE IF w.roles[resolver] # 1 /\ w.roles[resolver] # 2 THEN ErrResolver
    ELSE Ok

require_resolver_role(w, resolver) ==
    IF w.admin = NoAddress THEN ErrNotInitialized
    ELSE IF resolver = w.admin THEN Ok
    ELSE IF w.identity_contract = NoAddress THEN ErrNoIdentity
    ELSE IF w.roles[resolver] # 1 /\ w.roles[resolver] # 2 THEN ErrResolver
    ELSE Ok

\* C24 mutant: the guard is never seen as held
guard_held_never(w, match_id) == FALSE

\* C40 mutant: one guard for the whole contract
guard_held_globally(w, match_id) == w.guards # {}

guard_held(w, match_id) == match_id \in w.guards

acquire_reentrancy_guard(w, match_id) ==
    [w EXCEPT !.guards = @ \cup {match_id}]

\* C23 mutant: the guard is never removed
release_reentrancy_guard_kept(w, match_id) == w

release_reentrancy_guard(w, match_id) ==
    [w EXCEPT !.guards = @ \ {match_id}]

\* C34 mutant: an initialized contract can be initialized again
initialize_again(w, new_admin, caller) ==
    IF caller # new_admin THEN Fail(w, ErrAuth)
    ELSE Done([w EXCEPT !.admin = new_admin, !.paused = FALSE], 1)

\* ---------------------------------------------------------- administration
initialize(w, new_admin, caller) ==
    IF w.admin # NoAddress THEN Fail(w, ErrAlreadyInitialized)
    ELSE IF caller # new_admin THEN Fail(w, ErrAuth)
    ELSE Done([w EXCEPT !.admin = new_admin, !.paused = FALSE], 1)

set_match_contract(w, contract, caller) ==
    IF require_admin(w, caller) # Ok THEN Fail(w, require_admin(w, caller))
    ELSE Done([w EXCEPT !.match_contract = contract], 1)

set_identity_contract(w, contract, caller) ==
    IF require_admin(w, caller) # Ok THEN Fail(w, require_admin(w, caller))
    ELSE Done([w EXCEPT !.identity_contract = contract], 1)

set_treasury(w, new_treasury, caller) ==
    IF require_admin(w, caller) # Ok THEN Fail(w, require_admin(w, caller))
    ELSE Done([w EXCEPT !.treasury = new_treasury], 1)

set_paused(w, flag, caller) ==
    IF require_admin(w, caller) # Ok THEN Fail(w, require_admin(w, caller))
    ELSE Done([w EXCEPT !.paused = flag], 0)

\* ---------------------------------------------------------------- creation
new_escrow(w, match_id, player_a, player_b, amount, asset) ==
    [match_id |-> match_id, player_a |-> player_a, player_b |-> player_b,
     amount |-> amount, asset |-> asset, state |-> AwaitingDeposits,
     player_a_deposited |-> FALSE, player_b_deposited |-> FALSE,
     created_at |-> w.now, locked_at |-> None, released_at |-> None]

\* C21 mutant: the amount and the players are not validated
create_escrow_unvalidated(w, match_id, player_a, player_b, amount, asset) ==
    IF ~require_not_paused(w) THEN Fail(w, ErrPaused)
    ELSE IF has_escrow(w, match_id) THEN Fail(w, ErrExists)
    ELSE Done(put_escrow(w, match_id,
                         new_escrow(w, match_id, player_a, player_b, amount, asset)), 0)

\* C20 mutant: an existing record is replaced by a fresh one
create_escrow_overwrites(w, match_id, player_a, player_b, amount, asset) ==
    IF ~require_not_paused(w) THEN Fail(w, ErrPaused)
    ELSE IF amount <= 0 THEN Fail(w, ErrAmount)
    ELSE IF player_a = player_b THEN Fail(w, ErrSamePlayer)
    ELSE Done(put_escrow(w, match_id,
                         new_escrow(w, match_id, player_a, player_b, amount, asset)), 0)

create_escrow(w, match_id, player_a, player_b, amount, asset) ==
    IF ~require_not_paused(w) THEN Fail(w, ErrPaused)
    ELSE IF has_escrow(w, match_id) THEN Fail(w, ErrExists)
    ELSE IF amount <= 0 THEN Fail(w, ErrAmount)
    ELSE IF player_a = player_b THEN Fail(w, ErrSamePlayer)
    ELSE Done(put_escrow(w, match_id,
                         new_escrow(w, match_id, player_a, player_b, amount, asset)), 0)

\* ----------------------------------------------------------------- deposit
deposit_valid_states == {AwaitingDeposits, PlayerADeposited, PlayerBDeposited}

\* C4 mutant: any deposit marks the escrow fully funded
deposit_update_always_funded(escrow, is_player_a) ==
    IF is_player_a
    THEN [escrow EXCEPT !.player_a_deposited = TRUE, !.state = FullyFunded]
    ELSE [escrow EXCEPT !.player_b_deposited = TRUE, !.state = FullyFunded]

\* C13 mutant: player_a's deposit never completes the funding
deposit_update_order_dependent(escrow, is_player_a) ==
    IF is_player_a
    THEN [escrow EXCEPT !.player_a_deposited = TRUE, !.state = PlayerADeposited]
    ELSE [escrow EXCEPT !.player_b_deposited = TRUE,
                        !.state = IF escrow.player_a_deposited
                                  THEN FullyFunded ELSE PlayerBDeposited]

\* C33 mutant: the record's amount becomes the pooled total once both paid
deposit_update_pools_amount(escrow, is_player_a) ==
    IF is_player_a
    THEN [escrow EXCEPT !.player_a_deposited = TRUE,
                        !.amount = IF escrow.player_b_deposited THEN @ * 2 ELSE @,
                        !.state = IF escrow.player_b_deposited
                                  THEN FullyFunded ELSE PlayerADeposited]
    ELSE [escrow EXCEPT !.player_b_deposited = TRUE,
                        !.amount = IF escrow.player_a_deposited THEN @ * 2 ELSE @,
                        !.state = IF escrow.player_a_deposited
                                  THEN FullyFunded ELSE PlayerBDeposited]

\* C35 mutant: a deposit sets the flag and leaves the state as it was
deposit_update_flag_only(escrow, is_player_a) ==
    IF is_player_a
    THEN [escrow EXCEPT !.player_a_deposited = TRUE]
    ELSE [escrow EXCEPT !.player_b_deposited = TRUE]

\* the record after player's stake arrived (lib.rs 340-354)
deposit_update(escrow, is_player_a) ==
    IF is_player_a
    THEN [escrow EXCEPT !.player_a_deposited = TRUE,
                        !.state = IF escrow.player_b_deposited
                                  THEN FullyFunded ELSE PlayerADeposited]
    ELSE [escrow EXCEPT !.player_b_deposited = TRUE,
                        !.state = IF escrow.player_a_deposited
                                  THEN FullyFunded ELSE PlayerBDeposited]

\* C14 mutant: the deposit flags are not consulted before the transfer
deposit_without_exclusivity(w, match_id, player, caller) ==
    IF ~require_not_paused(w) THEN Fail(w, ErrPaused)
    ELSE IF guard_held(w, match_id) THEN Fail(w, ErrReentrancy)
    ELSE IF caller # player THEN Fail(w, ErrAuth)
    ELSE IF ~has_escrow(w, match_id) THEN Fail(w, ErrNotFound)
    ELSE
      LET w1 == acquire_reentrancy_guard(w, match_id)
          escrow == w1.escrows[match_id]
          is_player_a == player = escrow.player_a
          is_player_b == player = escrow.player_b
      IN  IF ~is_player_a /\ ~is_player_b THEN Fail(w, ErrNotInMatch)
          ELSE IF escrow.state \notin deposit_valid_states THEN Fail(w, ErrDepositState)
          ELSE IF ~can_transfer(w1, escrow.asset, player, escrow.amount)
               THEN Fail(w, ErrTransfer)
          ELSE
            LET w2 == transfer(w1, escrow.asset, player, Vault, escrow.amount)
                w3 == put_escrow(w2, match_id, deposit_update(escrow, is_player_a))
            IN  Done(release_reentrancy_guard(w3, match_id), 1)

\* C27 mutant: the player's authorization is not required
deposit_unauthenticated(w, match_id, player, caller) ==
    IF ~require_not_paused(w) THEN Fail(w, ErrPaused)
    ELSE IF guard_held(w, match_id) THEN Fail(w, ErrReentrancy)
    ELSE IF ~has_escrow(w, match_id) THEN Fail(w, ErrNotFound)
    ELSE
      LET w1 == acquire_reentrancy_guard(w, match_id)
          escrow == w1.escrows[match_id]
          is_player_a == player = escrow.player_a
          is_player_b == player = escrow.player_b
      IN  IF ~is_player_a /\ ~is_player_b THEN Fail(w, ErrNotInMatch)
          ELSE IF is_player_a /\ escrow.player_a_deposited THEN Fail(w, ErrADeposited)
          ELSE IF is_player_b /\ escrow.player_b_deposited THEN Fail(w, ErrBDeposited)
          ELSE IF escrow.state \notin deposit_valid_states THEN Fail(w, ErrDepositState)
          ELSE IF ~can_transfer(w1, escrow.asset, player, escrow.amount)
               THEN Fail(w, ErrTransfer)
          ELSE
            LET w2 == transfer(w1, escrow.asset, player, Vault, escrow.amount)
                w3 == put_escrow(w2, match_id, deposit_update(escrow, is_player_a))
            IN  Done(release_reentrancy_guard(w3, match_id), 1)

deposit(w, match_id, player, caller) ==
    IF ~require_not_paused(w) THEN Fail(w, ErrPaused)
    ELSE IF guard_held(w, match_id) THEN Fail(w, ErrReentrancy)
    ELSE IF caller # player THEN Fail(w, ErrAuth)
    ELSE IF ~has_escrow(w, match_id) THEN Fail(w, ErrNotFound)
    ELSE
      LET w1 == acquire_reentrancy_guard(w, match_id)
          escrow == w1.escrows[match_id]
          is_player_a == player = escrow.player_a
          is_player_b == player = escrow.player_b
      IN  IF ~is_player_a /\ ~is_player_b THEN Fail(w, ErrNotInMatch)
          ELSE IF is_player_a /\ escrow.player_a_deposited THEN Fail(w, ErrADeposited)
          ELSE IF is_player_b /\ escrow.player_b_deposited THEN Fail(w, ErrBDeposited)
          ELSE IF escrow.state \notin deposit_valid_states THEN Fail(w, ErrDepositState)
          ELSE IF ~can_transfer(w1, escrow.asset, player, escrow.amount)
               THEN Fail(w, ErrTransfer)
          ELSE
            LET w2 == transfer(w1, escrow.asset, player, Vault, escrow.amount)
                w3 == put_escrow(w2, match_id, deposit_update(escrow, is_player_a))
            IN  Done(release_reentrancy_guard(w3, match_id), 1)

\* C17 mutant: one deposit is enough to lock
is_fully_funded_or_partial(escrow) ==
    escrow.state \in {PlayerADeposited, PlayerBDeposited, FullyFunded}

\* -------------------------------------------------------------------- lock
\* lib.rs 393
is_fully_funded(escrow) == escrow.state = FullyFunded

\* C31 mutant: locking does not stamp locked_at
lock_funds_unstamped(w, match_id, caller) ==
    IF ~require_not_paused(w) THEN Fail(w, ErrPaused)
    ELSE IF require_match_contract_or_admin(w, caller) # Ok
         THEN Fail(w, require_match_contract_or_admin(w, caller))
    ELSE IF guard_held(w, match_id) THEN Fail(w, ErrReentrancy)
    ELSE IF ~has_escrow(w, match_id) THEN Fail(w, ErrNotFound)
    ELSE
      LET w1 == acquire_reentrancy_guard(w, match_id)
          escrow == w1.escrows[match_id]
      IN  IF ~is_fully_funded(escrow) THEN Fail(w, ErrNotFullyFunded)
          ELSE
            LET w2 == put_escrow(w1, match_id, [escrow EXCEPT !.state = Locked])
            IN  Done(release_reentrancy_guard(w2, match_id), 1)

lock_funds(w, match_id, caller) ==
    IF ~require_not_paused(w) THEN Fail(w, ErrPaused)
    ELSE IF require_match_contract_or_admin(w, caller) # Ok
         THEN Fail(w, require_match_contract_or_admin(w, caller))
    ELSE IF guard_held(w, match_id) THEN Fail(w, ErrReentrancy)
    ELSE IF ~has_escrow(w, match_id) THEN Fail(w, ErrNotFound)
    ELSE
      LET w1 == acquire_reentrancy_guard(w, match_id)
          escrow == w1.escrows[match_id]
      IN  IF ~is_fully_funded(escrow) THEN Fail(w, ErrNotFullyFunded)
          ELSE
            LET w2 == put_escrow(w1, match_id,
                        [escrow EXCEPT !.state = Locked, !.locked_at = Some(w1.now)])
            IN  Done(release_reentrancy_guard(w2, match_id), 1)

\* ----------------------------------------------------------------- release
\* both players' stakes (lib.rs 446, 600)
total_amount(escrow) == escrow.amount * 2

\* x * y does not fit the signed amount type. The invocation then traps in
\* either build: at the multiplication when overflow checks are compiled in,
\* and otherwise at the token transfer, the wrapped product of a positive
\* amount and 2 being negative.
mul_overflows(x, y) == x * y > IntMax \/ x * y < 0 - IntMax - 1

\* lib.rs 435
is_locked(escrow) == escrow.state = Locked

\* C12 mutant: any address is accepted as the winner
winner_in_match_anyone(escrow, winner) == TRUE

winner_in_match(escrow, winner) ==
    winner = escrow.player_a \/ winner = escrow.player_b

\* C2 mutant: the payout is made but the record is not finalized
pay_winner_not_finalized(w1, match_id, escrow, winner) ==
    LET w2 == transfer(w1, escrow.asset, Vault, winner, escrow.amount * 2)
    IN  release_reentrancy_guard(w2, match_id)

\* transfer to the winner and finalize (lib.rs 445-461, 599-615)
pay_winner(w1, match_id, escrow, winner) ==
    LET w2 == transfer(w1, escrow.asset, Vault, winner, total_amount(escrow))
        w3 == put_escrow(w2, match_id,
                [escrow EXCEPT !.state = Released, !.released_at = Some(w2.now)])
    IN  release_reentrancy_guard(w3, match_id)

release_to_winner(w, match_id, winner, caller) ==
    IF ~require_not_paused(w) THEN Fail(w, ErrPaused)
    ELSE IF require_match_contract_or_admin(w, caller) # Ok
         THEN Fail(w, require_match_contract_or_admin(w, caller))
    ELSE IF guard_held(w, match_id) THEN Fail(w, ErrReentrancy)
    ELSE IF ~has_escrow(w, match_id) THEN Fail(w, ErrNotFound)
    ELSE
      LET w1 == acquire_reentrancy_guard(w, match_id)
          escrow == w1.escrows[match_id]
      IN  IF ~is_locked(escrow) THEN Fail(w, ErrNotLocked)
          ELSE IF ~winner_in_match(escrow, winner) THEN Fail(w, ErrWinner)
          ELSE IF mul_overflows(escrow.amount, 2) THEN Fail(w, ErrOverflow)
          ELSE IF ~can_transfer(w1, escrow.asset, Vault, total_amount(escrow))
               THEN Fail(w, ErrTransfer)
          ELSE Done(pay_winner(w1, match_id, escrow, winner), 1)

\* ------------------------------------------------------------------ refund
\* C5 mutant: only a released escrow counts as finalized
is_finalized_released_only(escrow) == escrow.state = Released

\* lib.rs 495-497
is_finalized(escrow) == escrow.state = Released \/ escrow.state = Refunded

\* C8 mutant: player B's refund decided by player A's flag
refund_due_b_copied(escrow) == escrow.player_a_deposited

\* lib.rs 505, 509: a stake goes back to the player whose flag is set
refund_due_a(escrow) == escrow.player_a_deposited

refund_due_b(escrow) == escrow.player_b_deposited

\* C16 mutant: the first refund transfer survives the failure of the second
refund_first_transfer_kept(w, match_id, caller) ==
    IF ~require_not_paused(w) THEN Fail(w, ErrPaused)
    ELSE IF require_match_contract_or_admin(w, caller) # Ok
         THEN Fail(w, require_match_contract_or_admin(w, caller))
    ELSE IF guard_held(w, match_id) THEN Fail(w, ErrReentrancy)
    ELSE IF ~has_escrow(w, match_id) THEN Fail(w, ErrNotFound)
    ELSE
      LET w1 == acquire_reentrancy_guard(w, match_id)
          escrow == w1.escrows[match_id]
      IN  IF is_finalized(escrow) THEN Fail(w, ErrFinalized)
          ELSE IF refund_due_a(escrow)
                  /\ ~can_transfer(w1, escrow.asset, Vault, escrow.amount)
               THEN Fail(w, ErrTransfer)
          ELSE
            LET w2 == IF refund_due_a(escrow)
                      THEN transfer(w1, escrow.asset, Vault, escrow.player_a, escrow.amount)
                      ELSE w1
            IN  IF refund_due_b(escrow)
                   /\ ~can_transfer(w2, escrow.asset, Vault, escrow.amount)
                THEN Fail(w2, ErrTransfer)
                ELSE
                  LET w3 == IF refund_due_b(escrow)
                            THEN transfer(w2, escrow.asset, Vault, escrow.player_b,
                                          escrow.amount)
                            ELSE w2
                      w4 == put_escrow(w3, match_id,
                              [escrow EXCEPT !.state = Refunded,
                                             !.released_at = Some(w3.now)])
                  IN  Done(release_reentrancy_guard(w4, match_id), 1)

refund(w, match_id, caller) ==
    IF ~require_not_paused(w) THEN Fail(w, ErrPaused)
    ELSE IF require_match_contract_or_admin(w, caller) # Ok
         THEN Fail(w, require_match_contract_or_admin(w, caller))
    ELSE IF guard_held(w, match_id) THEN Fail(w, ErrReentrancy)
    ELSE IF ~has_escrow(w, match_id) THEN Fail(w, ErrNotFound)
    ELSE
      LET w1 == acquire_reentrancy_guard(w, match_id)
          escrow == w1.escrows[match_id]
      IN  IF is_finalized(escrow) THEN Fail(w, ErrFinalized)
          ELSE IF refund_due_a(escrow)
                  /\ ~can_transfer(w1, escrow.asset, Vault, escrow.amount)
               THEN Fail(w, ErrTransfer)
          ELSE
            LET w2 == IF refund_due_a(escrow)
                      THEN transfer(w1, escrow.asset, Vault, escrow.player_a, escrow.amount)
                      ELSE w1
            IN  IF refund_due_b(escrow)
                   /\ ~can_transfer(w2, escrow.asset, Vault, escrow.amount)
                THEN Fail(w, ErrTransfer)
                ELSE
                  LET w3 == IF refund_due_b(escrow)
                            THEN transfer(w2, escrow.asset, Vault, escrow.player_b,
                                          escrow.amount)
                            ELSE w2
                      w4 == put_escrow(w3, match_id,
                              [escrow EXCEPT !.state = Refunded,
                                             !.released_at = Some(w3.now)])
                  IN  Done(release_reentrancy_guard(w4, match_id), 1)

\* ----------------------------------------------------------------- dispute
\* lib.rs 551
may_dispute(escrow) == escrow.state = Locked

\* C10 mutant: a locked escrow is resolved like a disputed one
is_disputed_or_locked(escrow) == escrow.state = Disputed \/ escrow.state = Locked

\* lib.rs 589
is_disputed(escrow) == escrow.state = Disputed

\* C19 mutant: marking the dispute stamps the record with the current time
mark_disputed_stamps_time(w, match_id, caller) ==
    IF require_match_contract_or_admin(w, caller) # Ok
    THEN Fail(w, require_match_contract_or_admin(w, caller))
    ELSE IF ~has_escrow(w, match_id) THEN Fail(w, ErrNotFound)
    ELSE
      LET escrow == w.escrows[match_id]
      IN  IF ~may_dispute(escrow) THEN Fail(w, ErrNotLocked)
          ELSE Done(put_escrow(w, match_id,
                      [escrow EXCEPT !.state = Disputed, !.locked_at = Some(w.now)]), 0)

mark_disputed(w, match_id, caller) ==
    IF require_match_contract_or_admin(w, caller) # Ok
    THEN Fail(w, require_match_contract_or_admin(w, caller))
    ELSE IF ~has_escrow(w, match_id) THEN Fail(w, ErrNotFound)
    ELSE
      LET escrow == w.escrows[match_id]
      IN  IF ~may_dispute(escrow) THEN Fail(w, ErrNotLocked)
          ELSE Done(put_escrow(w, match_id, [escrow EXCEPT !.state = Disputed]), 0)

resolve_dispute(w, match_id, winner, resolver, caller) ==
    IF ~require_not_paused(w) THEN Fail(w, ErrPaused)
    ELSE IF caller # resolver THEN Fail(w, ErrAuth)
    ELSE IF require_resolver_role(w, resolver) # Ok
         THEN Fail(w, require_resolver_role(w, resolver))
    ELSE IF guard_held(w, match_id) THEN Fail(w, ErrReentrancy)
    ELSE IF ~has_escrow(w, match_id) THEN Fail(w, ErrNotFound)
    ELSE
      LET w1 == acquire_reentrancy_guard(w, match_id)
          escrow == w1.escrows[match_id]
      IN  IF ~is_disputed(escrow) THEN Fail(w, ErrNotDisputed)
          ELSE IF ~winner_in_match(escrow, winner) THEN Fail(w, ErrWinner)
          ELSE IF mul_overflows(escrow.amount, 2) THEN Fail(w, ErrOverflow)
          ELSE IF ~can_transfer(w1, escrow.asset, Vault, total_amount(escrow))
               THEN Fail(w, ErrTransfer)
          ELSE Done(pay_winner(w1, match_id, escrow, winner), 1)

\* C30 mutant: a zero or negative amount is accepted
slash_stake_any_amount(w, subject, amount, asset, caller) ==
    IF require_admin(w, caller) # Ok THEN Fail(w, require_admin(w, caller))
    ELSE IF w.treasury = NoAddress THEN Fail(w, ErrNoTreasury)
    ELSE IF balance(w, asset, Vault) < amount THEN Fail(w, ErrSlashBalance)
    ELSE Done(transfer(w, asset, Vault, w.treasury, amount), 1)

\* ------------------------------------------------- slashing and emergencies
slash_stake(w, subject, amount, asset, caller) ==
    IF require_admin(w, caller) # Ok THEN Fail(w, require_admin(w, caller))
    ELSE IF amount <= 0 THEN Fail(w, ErrAmount)
    ELSE IF w.treasury = NoAddress THEN Fail(w, ErrNoTreasury)
    ELSE IF balance(w, asset, Vault) < amount THEN Fail(w, ErrSlashBalance)
    ELSE Done(transfer(w, asset, Vault, w.treasury, amount), 1)

\* the stakes the flags say were deposited (lib.rs 696-702)
emergency_total(escrow) ==
    (IF escrow.player_a_deposited THEN escrow.amount ELSE 0)
    + (IF escrow.player_b_deposited THEN escrow.amount ELSE 0)

\* C32 mutant: an emergency withdrawal clears the deposit flags
emergency_withdraw_clears_flags(w, match_id, recipient, caller) ==
    IF require_admin(w, caller) # Ok THEN Fail(w, require_admin(w, caller))
    ELSE IF guard_held(w, match_id) THEN Fail(w, ErrReentrancy)
    ELSE IF ~has_escrow(w, match_id) THEN Fail(w, ErrNotFound)
    ELSE
      LET w1 == acquire_reentrancy_guard(w, match_id)
          escrow == w1.escrows[match_id]
          total == emergency_total(escrow)
      IN  IF total > 0 /\ ~can_transfer(w1, escrow.asset, Vault, total)
          THEN Fail(w, ErrTransfer)
          ELSE
            LET w2 == IF total > 0
                      THEN transfer(w1, escrow.asset, Vault, recipient, total)
                      ELSE w1
                w3 == put_escrow(w2, match_id,
                        [escrow EXCEPT !.player_a_deposited = FALSE,
                                       !.player_b_deposited = FALSE])
            IN  Done(release_reentrancy_guard(w3, match_id), 1)

emergency_withdraw(w, match_id, recipient, caller) ==
    IF require_admin(w, caller) # Ok THEN Fail(w, require_admin(w, caller))
    ELSE IF guard_held(w, match_id) THEN Fail(w, ErrReentrancy)
    ELSE IF ~has_escrow(w, match_id) THEN Fail(w, ErrNotFound)
    ELSE
      LET w1 == acquire_reentrancy_guard(w, match_id)
          escrow == w1.escrows[match_id]
          total == emergency_total(escrow)
      IN  IF total > IntMax THEN Fail(w, ErrOverflow)
          ELSE IF total > 0 /\ ~can_transfer(w1, escrow.asset, Vault, total)
          THEN Fail(w, ErrTransfer)
          ELSE
            LET w2 == IF total > 0
                      THEN transfer(w1, escrow.asset, Vault, recipient, total)
                      ELSE w1
            IN  Done(release_reentrancy_guard(w2, match_id), 1)

\* ------------------------------------------------------------- the machine
NoMatch == "-"
Callers == {"admin", "carol"}
MatchContracts == {"carol"}
Resolvers == {"admin", "carol"}
Recipients == {"carol"}
Winners == {"alice", "bob", "carol"}
PlayerPairs == {<<"alice", "bob">>, <<"alice", "alice">>}
Amounts == 0..MaxAmount

Init ==
    /\ admin = NoAddress
    /\ paused = FALSE
    /\ treasury = NoAddress
    /\ match_contract = NoAddress
    /\ identity_contract = NoAddress
    /\ escrows = <<>>
    /\ guards = {}
    /\ balances = [a \in Assets |->
                     [h \in Holders |-> IF h \in Players THEN InitialBalance ELSE 0]]
    /\ roles = [a \in Addresses |-> 0]
    /\ now = 0
    /\ deposited = [m \in MatchIds |-> 0]
    /\ paid = [m \in MatchIds |-> 0]
    /\ payouts = [m \in MatchIds |-> 0]
    /\ last = [op |-> "deploy", match_id |-> NoMatch, from |-> None]
    /\ pending = None

\* the value an invocation moved into (positive) or out of (negative) custody
custody_delta(w1, w2) ==
    LET RECURSIVE sum(_)
        sum(S) == IF S = {} THEN 0
                  ELSE LET a == CHOOSE x \in S : TRUE
                       IN  (w2.balances[a][Vault] - w1.balances[a][Vault]) + sum(S \ {a})
    IN  sum(Assets)

\* An invocation of entry point op with outcome r: it takes effect when it
\* succeeded, and is rolled back (nothing changes) when it panicked.
Commit(op, match_id, r) ==
    IF r.result # Ok THEN UNCHANGED vars
    ELSE
        /\ admin' = r.w.admin
        /\ paused' = r.w.paused
        /\ treasury' = r.w.treasury
        /\ match_contract' = r.w.match_contract
        /\ identity_contract' = r.w.identity_contract
        /\ escrows' = r.w.escrows
        /\ guards' = r.w.guards
        /\ balances' = r.w.balances
        /\ roles' = r.w.roles
        /\ now' = r.w.now
        /\ last' = [op |-> op, match_id |-> match_id,
                    from |-> IF match_id \in DOMAIN escrows
                             THEN Some(escrows[match_id].state) ELSE None]
        /\ LET d == custody_delta(World, r.w)
           IN  IF match_id \in MatchIds
               THEN /\ deposited' = [deposited EXCEPT ![match_id] = @ + (IF d > 0 THEN d ELSE 0)]
                    /\ paid' = [paid EXCEPT ![match_id] = @ + (IF d < 0 THEN 0 - d ELSE 0)]
               ELSE UNCHANGED <<deposited, paid>>
        /\ IF op \in {"release_to_winner", "resolve_dispute"}
           THEN payouts' = [payouts EXCEPT ![match_id] = @ + 1]
           ELSE UNCHANGED payouts
        /\ UNCHANGED pending

Initialize ==
    /\ \E a \in {"admin"}, caller \in Callers :
          Commit("initialize", NoMatch, initialize(World, a, caller))

SetMatchContract ==
    /\ \E c \in MatchContracts, caller \in Callers :
          Commit("set_match_contract", NoMatch, set_match_contract(World, c, caller))

SetIdentityContract ==
    /\ \E c \in IdentityContracts, caller \in Callers :
          Commit("set_identity_contract", NoMatch, set_identity_contract(World, c, caller))

SetTreasury ==
    /\ \E t \in Recipients, caller \in Callers :
          Commit("set_treasury", NoMatch, set_treasury(World, t, caller))

SetPaused ==
    /\ \E flag \in BOOLEAN, caller \in Callers :
          Commit("set_paused", NoMatch, set_paused(World, flag, caller))

CreateEscrow ==
    /\ \E m \in MatchIds, pp \in PlayerPairs, amount \in Amounts, asset \in Assets :
          Commit("create_escrow", m, create_escrow(World, m, pp[1], pp[2], amount, asset))

Deposit ==
    /\ \E m \in MatchIds, player \in Winners, caller \in Winners :
          Commit("deposit", m, deposit(World, m, player, caller))

LockFunds ==
    /\ \E m \in MatchIds, caller \in Callers :
          Commit("lock_funds", m, lock_funds(World, m, caller))

ReleaseToWinner ==
    /\ \E m \in MatchIds, winner \in Winners, caller \in Callers :
          Commit("release_to_winner", m, release_to_winner(World, m, winner, caller))

Refund ==
    /\ \E m \in MatchIds, caller \in Callers :
          Commit("refund", m, refund(World, m, caller))

MarkDisputed ==
    /\ \E m \in MatchIds, caller \in Callers :
          Commit("mark_disputed", m, mark_disputed(World, m, caller))

ResolveDispute ==
    /\ \E m \in MatchIds, winner \in Winners, resolver \in Resolvers, caller \in Resolvers :
          Commit("resolve_dispute", m, resolve_dispute(World, m, winner, resolver, caller))

SlashStake ==
    /\ \E subject \in Players, amount \in Amounts, asset \in Assets, caller \in Callers :
          Commit("slash_stake", NoMatch, slash_stake(World, subject, amount, asset, caller))

EmergencyWithdraw ==
    /\ \E m \in MatchIds, recipient \in Recipients, caller \in Callers :
          Commit("emergency_withdraw", m, emergency_withdraw(World, m, recipient, caller))

\* the ledger closes: the timestamp advances
Tick ==
    /\ now < MaxTime
    /\ Commit("tick", NoMatch, Done([World EXCEPT !.now = @ + 1], 0))

\* the identity contract changes a resolver's role
SetRole ==
    /\ \E a \in Resolvers \ {"admin"} : \E r \in RoleIds \ {roles[a]} :
          Commit("set_role", NoMatch, Done([World EXCEPT !.roles[a] = r], 0))

\* creation of the first match only
CreateFirst ==
    /\ \E pp \in PlayerPairs, amount \in Amounts, asset \in Assets :
          Commit("create_escrow", "m1", create_escrow(World, "m1", pp[1], pp[2], amount, asset))

\* Two matches sharing the vault's custody: the value flow.
Next ==
    \/ Initialize
    \/ SetTreasury
    \/ CreateEscrow
    \/ Deposit
    \/ LockFunds
    \/ ReleaseToWinner
    \/ Refund
    \/ MarkDisputed
    \/ ResolveDispute
    \/ SlashStake
    \/ EmergencyWithdraw

Spec == Init /\ [][Next]_vars

\* One match under every administrative and environment change.
NextOne ==
    \/ Initialize
    \/ SetIdentityContract
    \/ SetTreasury
    \/ SetPaused
    \/ CreateFirst
    \/ Deposit
    \/ LockFunds
    \/ ReleaseToWinner
    \/ Refund
    \/ MarkDisputed
    \/ ResolveDispute
    \/ SlashStake
    \/ EmergencyWithdraw
    \/ Tick
    \/ SetRole

SpecOne == Init /\ [][NextOne]_vars

\* One match with a match contract registered.
NextMatchContract ==
    \/ Initialize
    \/ SetMatchContract
    \/ CreateFirst
    \/ Deposit
    \/ LockFunds
    \/ ReleaseToWinner
    \/ Refund
    \/ MarkDisputed
    \/ EmergencyWithdraw

SpecMatchContract == Init /\ [][NextMatchContract]_vars

\* One match with stakes near the top of the amount type. The token supply
\* fits the amount type, as the token's own balances do.
LargeAmounts == {IntMax \div 4, IntMax \div 2, IntMax \div 2 + 1}

InitLarge ==
    /\ admin = NoAddress
    /\ paused = FALSE
    /\ treasury = NoAddress
    /\ match_contract = NoAddress
    /\ identity_contract = NoAddress
    /\ escrows = <<>>
    /\ guards = {}
    /\ \E a \in LargeAmounts :
          balances = [s \in Assets |->
                        [h \in Holders |-> IF h = "alice" THEN a
                                           ELSE IF h = "bob" THEN IntMax - a
                                           ELSE 0]]
    /\ roles = [a \in Addresses |-> 0]
    /\ now = 0
    /\ deposited = [m \in MatchIds |-> 0]
    /\ paid = [m \in MatchIds |-> 0]
    /\ payouts = [m \in MatchIds |-> 0]
    /\ last = [op |-> "deploy", match_id |-> NoMatch, from |-> None]
    /\ pending = None

CreateLarge ==
    /\ \E amount \in LargeAmounts, asset \in Assets :
          Commit("create_escrow", "m1",
                 create_escrow(World, "m1", "alice", "bob", amount, asset))

\* the admin withdraws a match's stakes to one of its players
EmergencyWithdrawToPlayer ==
    /\ \E m \in MatchIds, recipient \in Players, caller \in Callers :
          Commit("emergency_withdraw", m,
                 emergency_withdraw(World, m, recipient, caller))

NextLarge ==
    \/ Initialize
    \/ CreateLarge
    \/ Deposit
    \/ LockFunds
    \/ ReleaseToWinner
    \/ Refund
    \/ MarkDisputed
    \/ ResolveDispute
    \/ EmergencyWithdrawToPlayer

SpecLarge == InitLarge /\ [][NextLarge]_vars

\* ------------------------------------------------- inside the token transfer
\* token::Client::transfer hands control to the asset contract, which may call
\* back into the vault before it returns.  An invocation is followed through
\* that window: the guard is held, the tokens have moved, the record the
\* invocation read is in its memory and not yet written.  An invocation that
\* traps after the window is rolled back as a whole, window included, and
\* leaves no state behind, so the window of such an invocation has no
\* successor.  slash_stake does nothing after its transfer but publish an
\* event, so calls made during its transfer are calls made after it.
Frame(op, match_id, party) ==
    [op |-> op, match_id |-> match_id, party |-> party, escrow |-> escrows[match_id]]

\* the invocation reached its transfer: w is the world with the transfer made
EnterTransfer(op, match_id, party, w) ==
    /\ pending = None
    /\ balances' = w.balances
    /\ guards' = w.guards
    /\ pending' = Some(Frame(op, match_id, party))
    /\ LET d == custody_delta(World, w)
       IN  /\ deposited' = [deposited EXCEPT ![match_id] = @ + (IF d > 0 THEN d ELSE 0)]
           /\ paid' = [paid EXCEPT ![match_id] = @ + (IF d < 0 THEN 0 - d ELSE 0)]
    /\ UNCHANGED <<admin, paused, treasury, match_contract, identity_contract, escrows,
                   roles, now, payouts, last>>

\* deposit up to the return of its transfer (lib.rs 297-338)
EnterDeposit ==
    /\ \E m \in DOMAIN escrows, player \in Players :
          /\ deposit(World, m, player, player).result = Ok
          /\ EnterTransfer("deposit", m, player,
                transfer(acquire_reentrancy_guard(World, m), escrows[m].asset,
                         player, Vault, escrows[m].amount))

\* release_to_winner up to the return of its transfer (lib.rs 424-451)
EnterReleaseToWinner ==
    /\ \E m \in DOMAIN escrows, winner \in Players, caller \in Callers :
          /\ release_to_winner(World, m, winner, caller).result = Ok
          /\ EnterTransfer("release_to_winner", m, winner,
                transfer(acquire_reentrancy_guard(World, m), escrows[m].asset,
                         Vault, winner, total_amount(escrows[m])))

\* resolve_dispute up to the return of its transfer (lib.rs 577-605)
EnterResolveDispute ==
    /\ \E m \in DOMAIN escrows, winner \in Players, resolver \in Resolvers :
          /\ resolve_dispute(World, m, winner, resolver, resolver).result = Ok
          /\ EnterTransfer("resolve_dispute", m, winner,
                transfer(acquire_reentrancy_guard(World, m), escrows[m].asset,
                         Vault, winner, total_amount(escrows[m])))

\* refund up to the return of its transfer to player_a (lib.rs 484-507), or,
\* with that transfer made, up to the return of its transfer to player_b (511)
EnterRefund ==
    /\ \E m \in DOMAIN escrows, caller \in Callers :
          LET e == escrows[m]
              w1 == acquire_reentrancy_guard(World, m)
              wa == IF refund_due_a(e)
                    THEN transfer(w1, e.asset, Vault, e.player_a, e.amount) ELSE w1
          IN  \/ /\ refund(World, m, caller).result \in {Ok, ErrTransfer}
                 /\ refund_due_a(e)
                 /\ can_transfer(w1, e.asset, Vault, e.amount)
                 /\ EnterTransfer("refund", m, e.player_a, wa)
              \/ /\ refund(World, m, caller).result = Ok
                 /\ refund_due_b(e)
                 /\ EnterTransfer("refund", m, e.player_b,
                       transfer(wa, e.asset, Vault, e.player_b, e.amount))

\* emergency_withdraw up to the return of its transfer (lib.rs 683-705)
EnterEmergencyWithdraw ==
    /\ \E m \in DOMAIN escrows, recipient \in Recipients, caller \in Callers :
          /\ emergency_withdraw(World, m, recipient, caller).result = Ok
          /\ emergency_total(escrows[m]) > 0
          /\ EnterTransfer("emergency_withdraw", m, recipient,
                transfer(acquire_reentrancy_guard(World, m), escrows[m].asset,
                         Vault, recipient, emergency_total(escrows[m])))

\* the rest of the invocation f once its transfer returned: the transfer still
\* to make (refund), the write of the record it holds in memory, the release
\* of the guard (lib.rs 340-360, 453-461, 509-518, 607-615, 708)
after_transfer(w, f) ==
    LET e == f.escrow
        m == f.match_id
    IN  IF f.op = "deposit"
        THEN Done(release_reentrancy_guard(
                    put_escrow(w, m, deposit_update(e, f.party = e.player_a)), m), 1)
        ELSE IF f.op \in {"release_to_winner", "resolve_dispute"}
        THEN Done(release_reentrancy_guard(
                    put_escrow(w, m, [e EXCEPT !.state = Released,
                                               !.released_at = Some(w.now)]), m), 1)
        ELSE IF f.op = "refund"
        THEN IF f.party = e.player_a /\ refund_due_b(e)
                /\ ~can_transfer(w, e.asset, Vault, e.amount)
             THEN Fail(w, ErrTransfer)
             ELSE LET w3 == IF f.party = e.player_a /\ refund_due_b(e)
                            THEN transfer(w, e.asset, Vault, e.player_b, e.amount)
                            ELSE w
                  IN  Done(release_reentrancy_guard(
                             put_escrow(w3, m, [e EXCEPT !.state = Refunded,
                                                         !.released_at = Some(w3.now)]),
                             m), 1)
        ELSE Done(release_reentrancy_guard(w, m), 1)

\* the transfer returned and the invocation runs to its end
FinishTransfer ==
    /\ pending # None
    /\ LET f == pending[1]
           r == after_transfer(World, f)
           d == custody_delta(World, r.w)
       IN  /\ r.result = Ok
           /\ admin' = r.w.admin
           /\ paused' = r.w.paused
           /\ treasury' = r.w.treasury
           /\ match_contract' = r.w.match_contract
           /\ identity_contract' = r.w.identity_contract
           /\ escrows' = r.w.escrows
           /\ guards' = r.w.guards
           /\ balances' = r.w.balances
           /\ roles' = r.w.roles
           /\ now' = r.w.now
           /\ last' = [op |-> f.op, match_id |-> f.match_id,
                       from |-> Some(f.escrow.state)]
           /\ deposited' = [deposited EXCEPT ![f.match_id] = @ + (IF d > 0 THEN d ELSE 0)]
           /\ paid' = [paid EXCEPT ![f.match_id] = @ + (IF d < 0 THEN 0 - d ELSE 0)]
           /\ IF f.op \in {"release_to_winner", "resolve_dispute"}
              THEN payouts' = [payouts EXCEPT ![f.match_id] = @ + 1]
              ELSE UNCHANGED payouts
           /\ pending' = None

\* Two matches, with calls made back into the vault during a token transfer.
NextReentrant ==
    \/ Initialize
    \/ CreateEscrow
    \/ Deposit
    \/ LockFunds
    \/ ReleaseToWinner
    \/ Refund
    \/ MarkDisputed
    \/ ResolveDispute
    \/ EmergencyWithdraw
    \/ EnterDeposit
    \/ EnterReleaseToWinner
    \/ EnterResolveDispute
    \/ EnterRefund
    \/ EnterEmergencyWithdraw
    \/ FinishTransfer

SpecReentrant == Init /\ [][NextReentrant]_vars

\* -------------------------------------------------------------- properties
Terminal(st) == st = Released \/ st = Refunded

FlagsTrue(e) ==
    (IF e.player_a_deposited THEN 1 ELSE 0) + (IF e.player_b_deposited THEN 1 ELSE 0)

\* the value held in custody on behalf of match m
custody(m) == deposited[m] - paid[m]

\* the ledger b after amt moved from custody to holder to
PaidOut(b, asset, to, amt) ==
    [b EXCEPT ![asset] =
        [h \in Holders |-> b[asset][h] + (IF h = to THEN amt ELSE 0)
                                       - (IF h = Vault THEN amt ELSE 0)]]

\* the step is a successful invocation of op on match m
Invoked(op, m) == last'.op = op /\ last'.match_id = m

\* the admin calls on an unpaused contract
AdminCanCall == admin # NoAddress /\ ~paused

\* resolver passes the capability check
AuthorizedResolver(resolver) ==
    /\ admin # NoAddress
    /\ \/ resolver = admin
       \/ identity_contract # NoAddress /\ roles[resolver] \in {1, 2}

\* C1 (as claimed): the custody held for a match is amount x (deposit flags
\* that are true) while its state is not Released/Refunded, and 0 afterwards.
C1_Conservation ==
    \A m \in DOMAIN escrows :
        custody(m) = IF Terminal(escrows[m].state) THEN 0
                     ELSE escrows[m].amount * FlagsTrue(escrows[m])

\* C2: release_to_winner and resolve_dispute together succeed at most once per
\* match; after a payout every further release_to_winner or resolve_dispute by
\* an authorized caller fails with the state-conflict error of its state check,
\* moves no value and leaves the record as it was.
C2_NoDoublePayout ==
    /\ \A m \in MatchIds : payouts[m] <= 1
    /\ \A m \in DOMAIN escrows :
         payouts[m] >= 1 /\ AdminCanCall =>
           \A winner \in Winners, resolver \in Resolvers :
              /\ release_to_winner(World, m, winner, admin) = Fail(World, ErrNotLocked)
              /\ AuthorizedResolver(resolver) =>
                   resolve_dispute(World, m, winner, resolver, resolver)
                     = Fail(World, ErrNotDisputed)

\* a payout was made and custody still holds enough for a second one
C2_Witness ==
    \E m \in DOMAIN escrows :
        /\ payouts[m] = 1
        /\ last.op = "release_to_winner" /\ last.match_id = m
        /\ balances[escrows[m].asset][Vault] >= 2 * escrows[m].amount
        /\ release_to_winner(World, m, escrows[m].player_a, admin).result = ErrNotLocked

\* C3 (as claimed): the value transferred out of custody on behalf of a match
\* never exceeds the value deposited into that match.
C3_NoDoubleSpend == \A m \in MatchIds : paid[m] <= deposited[m]

\* the edges of the transition graph as the specification lists them
ListedEdge(s, t) ==
    \/ s = AwaitingDeposits /\ t \in {PlayerADeposited, PlayerBDeposited}
    \/ s \in {PlayerADeposited, PlayerBDeposited} /\ t = FullyFunded
    \/ s = FullyFunded /\ t = Locked
    \/ s = Locked /\ t \in {Released, Refunded, Disputed}
    \/ s \in {AwaitingDeposits, PlayerADeposited, PlayerBDeposited, FullyFunded}
       /\ t = Refunded
    \/ s = Disputed /\ t = Released

\* C4 (as claimed): every change of an escrow's record moves its state along
\* one of the listed edges; the only state reachable in one step from Disputed
\* is Released.
C4_ListedEdgesOnly ==
    [][/\ DOMAIN escrows \subseteq DOMAIN escrows'
       /\ \A m \in DOMAIN escrows :
            escrows'[m] # escrows[m] =>
               /\ escrows'[m].state # escrows[m].state
               /\ ListedEdge(escrows[m].state, escrows'[m].state)]_vars

AmendedEdge(s, t) == ListedEdge(s, t) \/ (s = Disputed /\ t = Refunded)

\* C4 (amended): every change of an escrow's record moves its state along a
\* listed edge or along Disputed -> Refunded (refund of a disputed escrow); a
\* call that fails leaves the record unmodified.
C4_TransitionGraph ==
    [][/\ DOMAIN escrows \subseteq DOMAIN escrows'
       /\ \A m \in DOMAIN escrows :
            escrows'[m] # escrows[m] =>
               /\ escrows'[m].state # escrows[m].state
               /\ AmendedEdge(escrows[m].state, escrows'[m].state)]_vars

\* a disputed escrow has just been refunded
C4_Witness ==
    \E m \in DOMAIN escrows :
        /\ last.op = "refund" /\ last.match_id = m /\ last.from = Some(Disputed)
        /\ escrows[m].state = Refunded

\* C5: once an escrow is Released or Refunded no step changes its state, and a
\* refund of it by an authorized caller fails with "escrow already finalized".
C5_TerminalAbsorbing ==
    /\ [](\A m \in DOMAIN escrows :
            Terminal(escrows[m].state) /\ AdminCanCall =>
               refund(World, m, admin) = Fail(World, ErrFinalized))
    /\ [][\A m \in DOMAIN escrows :
            Terminal(escrows[m].state) =>
               m \in DOMAIN escrows' /\ escrows'[m].state = escrows[m].state]_vars

\* an escrow has just been refunded while custody still holds value of its
\* asset, and a second refund is rejected
C5_Witness ==
    \E m \in DOMAIN escrows :
        /\ last.op = "refund" /\ last.match_id = m
        /\ escrows[m].state = Refunded
        /\ FlagsTrue(escrows[m]) > 0
        /\ balances[escrows[m].asset][Vault] >= escrows[m].amount
        /\ refund(World, m, admin).result = ErrFinalized

\* C6 (as claimed): a successful emergency_withdraw transfers exactly the
\* value held for the match, leaves the record finalized, and the step after
\* it transfers nothing on behalf of that match.
C6_EmergencyForceFinalizes ==
    [][\A m \in DOMAIN escrows :
         /\ Invoked("emergency_withdraw", m) =>
               /\ paid'[m] - paid[m] = custody(m)
               /\ Terminal(escrows'[m].state)
         /\ last.op = "emergency_withdraw" /\ last.match_id = m =>
               paid'[m] = paid[m]]_vars

\* C7 (as claimed): for the admin on an unpaused contract refund succeeds from
\* every state that is not Released/Refunded and takes the escrow to Refunded;
\* it fails only in Released and Refunded.
C7_RefundEnabled ==
    \A m \in DOMAIN escrows :
        AdminCanCall =>
           LET r == refund(World, m, admin)
           IN  IF Terminal(escrows[m].state) THEN r.result # Ok
               ELSE r.result = Ok /\ r.w.escrows[m].state = Refunded

\* C8: a successful refund moves exactly amount to each player whose deposit
\* flag is true, nothing to the other, takes the sum out of custody and
\* changes no other balance.
C8_PartialRefund ==
    [][\A m \in DOMAIN escrows :
         Invoked("refund", m) =>
            LET e == escrows[m]
                to_a == IF e.player_a_deposited THEN e.amount ELSE 0
                to_b == IF e.player_b_deposited THEN e.amount ELSE 0
            IN  balances' = PaidOut(PaidOut(balances, e.asset, e.player_a, to_a),
                                    e.asset, e.player_b, to_b)]_vars

\* an escrow only player_a had deposited into has just been refunded while
\* custody held more than that stake
C8_Witness ==
    \E m \in DOMAIN escrows :
        /\ last.op = "refund" /\ last.match_id = m
        /\ escrows[m].player_a_deposited /\ ~escrows[m].player_b_deposited
        /\ balances[escrows[m].asset][Vault] >= escrows[m].amount

\* C9 (as claimed): release_to_winner succeeds only from Locked with a winner
\* in the match; on success the winner gains 2 x amount, no other player's
\* balance changes, the custody of the match becomes 0, the state becomes
\* Released and released_at the current time; in any other state it fails with
\* "escrow not locked" and changes nothing.
C9_ReleaseToWinner ==
    /\ [](\A m \in DOMAIN escrows, winner \in Winners :
            AdminCanCall =>
               LET e == escrows[m]
                   r == release_to_winner(World, m, winner, admin)
               IN  /\ e.state # Locked => r = Fail(World, ErrNotLocked)
                   /\ r.result = Ok =>
                        /\ e.state = Locked
                        /\ winner \in {e.player_a, e.player_b}
                        /\ r.w.balances = PaidOut(balances, e.asset, winner, 2 * e.amount)
                        /\ r.w.escrows[m] = [e EXCEPT !.state = Released,
                                                      !.released_at = Some(now)])
    /\ [][\A m \in DOMAIN escrows :
            Invoked("release_to_winner", m) => custody(m)' = 0]_vars

\* C10: resolve_dispute by an authorized resolver fails with "escrow not
\* disputed", changing nothing, in every state but Disputed; when it succeeds
\* the state was Disputed, the winner is a player of the match and receives
\* exactly 2 x amount out of custody, and the state becomes Released.
C10_ResolveDispute ==
    /\ [](\A m \in DOMAIN escrows, winner \in Winners, resolver \in Resolvers :
            ~paused /\ AuthorizedResolver(resolver) =>
               LET e == escrows[m]
                   r == resolve_dispute(World, m, winner, resolver, resolver)
               IN  /\ e.state # Disputed => r = Fail(World, ErrNotDisputed)
                   /\ r.result = Ok =>
                        /\ e.state = Disputed
                        /\ winner \in {e.player_a, e.player_b}
                        /\ r.w.balances = PaidOut(balances, e.asset, winner, 2 * e.amount)
                        /\ r.w.escrows[m].state = Released)
    /\ [][\A m \in DOMAIN escrows :
            Invoked("resolve_dispute", m) =>
               /\ escrows[m].state = Disputed
               /\ escrows'[m].state = Released
               /\ \E winner \in {escrows[m].player_a, escrows[m].player_b} :
                     balances' = PaidOut(balances, escrows[m].asset, winner,
                                         2 * escrows[m].amount)]_vars

\* a dispute has just been resolved and a player of the match holds more than
\* the initial balance
C10_Witness ==
    \E m \in DOMAIN escrows :
        /\ last.op = "resolve_dispute" /\ last.match_id = m /\ last.from = Some(Disputed)
        /\ escrows[m].state = Released
        /\ \E p \in {escrows[m].player_a, escrows[m].player_b} :
              balances[escrows[m].asset][p] > InitialBalance

\* C11: resolve_dispute for a resolver who is not the admin and whom the role
\* oracle does not currently give role 1 or 2 fails whoever authorizes the
\* call, transfers nothing and leaves every record as it was; on an
\* initialized, unpaused contract the failure is "resolver not authorized", or
\* "identity contract not set" when no identity contract is configured.  The
\* roles are read in the state of the call, so a revoked role is rejected.
C11_ResolverAuthorization ==
    \A m \in MatchIds, winner \in Winners, resolver \in Resolvers, caller \in Resolvers :
        ~AuthorizedResolver(resolver) =>
           LET r == resolve_dispute(World, m, winner, resolver, caller)
           IN  /\ r.result # Ok
               /\ r.w.balances = balances
               /\ r.w.escrows = escrows
               /\ admin # NoAddress /\ ~paused /\ caller = resolver =>
                     r.result = IF identity_contract = NoAddress
                                THEN ErrNoIdentity ELSE ErrResolver

\* the resolver's role has just been revoked while a funded dispute is open,
\* and the resolver's call is rejected
C11_Witness ==
    \E m \in DOMAIN escrows, resolver \in Resolvers \ {admin} :
        /\ last.op = "set_role"
        /\ roles[resolver] = 0
        /\ identity_contract # NoAddress /\ ~paused
        /\ escrows[m].state = Disputed
        /\ balances[escrows[m].asset][Vault] >= 2 * escrows[m].amount
        /\ resolve_dispute(World, m, escrows[m].player_b, resolver, resolver).result
             = ErrResolver

\* C12: in every state release_to_winner and resolve_dispute called with a
\* winner that is neither player_a nor player_b fail, whoever calls, transfer
\* nothing and leave the record as it was; for an authorized caller in the
\* state the operation accepts (Locked, Disputed) the failure is "winner not
\* in match".
C12_WinnerValidity ==
    \A m \in DOMAIN escrows, winner \in Winners, caller \in Callers :
        winner # escrows[m].player_a /\ winner # escrows[m].player_b =>
           LET rel == release_to_winner(World, m, winner, caller)
               res == resolve_dispute(World, m, winner, caller, caller)
           IN  /\ rel.result # Ok /\ rel.w.balances = balances /\ rel.w.escrows = escrows
               /\ res.result # Ok /\ res.w.balances = balances /\ res.w.escrows = escrows
               /\ AdminCanCall /\ caller = admin /\ escrows[m].state = Locked =>
                     rel.result = ErrWinner
               /\ AdminCanCall /\ caller = admin /\ escrows[m].state = Disputed =>
                     res.result = ErrWinner

\* a funded dispute is open (the escrow went through Locked), custody covers
\* the payout, and resolving it for an outsider is rejected
C12_Witness ==
    \E m \in DOMAIN escrows, winner \in Winners \ Players :
        /\ last.op = "mark_disputed" /\ last.match_id = m /\ last.from = Some(Locked)
        /\ balances[escrows[m].asset][Vault] >= 2 * escrows[m].amount
        /\ resolve_dispute(World, m, winner, admin, admin).result = ErrWinner

\* the ledger b after amt moved from holder from into custody
PaidIn(b, asset, from, amt) ==
    [b EXCEPT ![asset] =
        [h \in Holders |-> b[asset][h] - (IF h = from THEN amt ELSE 0)
                                       + (IF h = Vault THEN amt ELSE 0)]]

\* the record e after player p's deposit as the claim describes it
Deposited(e, p) ==
    LET a == e.player_a_deposited \/ p = e.player_a
        b == e.player_b_deposited \/ p = e.player_b
    IN  [e EXCEPT !.player_a_deposited = a,
                  !.player_b_deposited = b,
                  !.state = IF a /\ b THEN FullyFunded
                            ELSE IF p = e.player_a THEN PlayerADeposited
                            ELSE PlayerBDeposited]

\* C13: a successful deposit(m, P) moves exactly amount from P to custody and
\* changes no other balance, sets P's deposit flag and no other, and sets the
\* state to FullyFunded when both flags are then true, else to PlayerADeposited
\* for player_a and PlayerBDeposited for player_b; whichever player deposits
\* second, the state after both deposits is FullyFunded.
C13_DepositEffect ==
    /\ [](\A m \in DOMAIN escrows, p \in Winners :
            LET e == escrows[m]
                r == deposit(World, m, p, p)
            IN  r.result = Ok =>
                  /\ p \in {e.player_a, e.player_b}
                  /\ ~(IF p = e.player_a THEN e.player_a_deposited
                                         ELSE e.player_b_deposited)
                  /\ r.w.balances = PaidIn(balances, e.asset, p, e.amount)
                  /\ r.w.escrows = [escrows EXCEPT ![m] = Deposited(e, p)])
    /\ [][\A m \in DOMAIN escrows :
            Invoked("deposit", m) =>
               /\ \E p \in {escrows[m].player_a, escrows[m].player_b} :
                     /\ balances' = PaidIn(balances, escrows[m].asset, p, escrows[m].amount)
                     /\ escrows' = [escrows EXCEPT ![m] = Deposited(escrows[m], p)]
               /\ custody(m)' = custody(m) + escrows[m].amount
               /\ escrows'[m].player_a_deposited /\ escrows'[m].player_b_deposited
                     => escrows'[m].state = FullyFunded]_vars

\* player_a has just deposited after player_b, completing the funding
C13_Witness ==
    \E m \in DOMAIN escrows :
        /\ last.op = "deposit" /\ last.match_id = m /\ last.from = Some(PlayerBDeposited)
        /\ escrows[m].state = FullyFunded
        /\ custody(m) = 2 * escrows[m].amount

MayDeposit(m, p) ==
    /\ ~paused /\ m \notin guards
    /\ p \in {escrows[m].player_a, escrows[m].player_b}
    /\ ~(IF p = escrows[m].player_a THEN escrows[m].player_a_deposited
                                    ELSE escrows[m].player_b_deposited)
    /\ escrows[m].state \in {AwaitingDeposits, PlayerADeposited, PlayerBDeposited}

\* C15: a deposit whose token transfer fails because the player holds less
\* than amount fails with the transfer error and leaves the flags, the state,
\* the balances, custody and the guard as they were; whenever the player holds
\* at least amount the deposit succeeds, so a rejected deposit does not block
\* a later one.
C15_DepositAtomicity ==
    /\ guards = {}
    /\ \A m \in DOMAIN escrows, p \in Players :
          MayDeposit(m, p) =>
             LET r == deposit(World, m, p, p)
             IN  IF balances[escrows[m].asset][p] < escrows[m].amount
                 THEN r = Fail(World, ErrTransfer)
                 ELSE r.result = Ok

\* a player with the flag unset holds less than the stake of an escrow that
\* takes deposits, and the deposit is rejected by the ledger
C15_Witness ==
    \E m \in DOMAIN escrows, p \in Players :
        /\ MayDeposit(m, p)
        /\ balances[escrows[m].asset][p] < escrows[m].amount
        /\ deposit(World, m, p, p).result = ErrTransfer

\* the outcomes of every invocation that can be made in the current state
Outcomes ==
    {initialize(World, a, c) : a \in {"admin"}, c \in Callers}
    \cup {set_match_contract(World, x, c) : x \in MatchContracts, c \in Callers}
    \cup {set_identity_contract(World, i, c) : i \in IdentityContracts, c \in Callers}
    \cup {set_treasury(World, t, c) : t \in Recipients, c \in Callers}
    \cup {set_paused(World, f, c) : f \in BOOLEAN, c \in Callers}
    \cup {create_escrow(World, m, pp[1], pp[2], a, s) :
             m \in MatchIds, pp \in PlayerPairs, a \in Amounts, s \in Assets}
    \cup {deposit(World, m, p, c) : m \in MatchIds, p \in Winners, c \in Winners}
    \cup {lock_funds(World, m, c) : m \in MatchIds, c \in Callers}
    \cup {release_to_winner(World, m, x, c) : m \in MatchIds, x \in Winners, c \in Callers}
    \cup {refund(World, m, c) : m \in MatchIds, c \in Callers}
    \cup {mark_disputed(World, m, c) : m \in MatchIds, c \in Callers}
    \cup {resolve_dispute(World, m, x, r, c) :
             m \in MatchIds, x \in Winners, r \in Resolvers, c \in Resolvers}
    \cup {slash_stake(World, p, a, s, c) :
             p \in Players, a \in Amounts, s \in Assets, c \in Callers}
    \cup {emergency_withdraw(World, m, t, c) :
             m \in MatchIds, t \in Recipients, c \in Callers}

\* the contract's balance covers one stake of match m but not two
CoversOneStake(m) ==
    /\ balances[escrows[m].asset][Vault] >= escrows[m].amount
    /\ balances[escrows[m].asset][Vault] < 2 * escrows[m].amount

\* C16: an invocation that ends in an error leaves every record, every token
\* balance and the rest of the contract's storage as before the call; a refund
\* of an escrow both players funded whose transfer to player_b fails after the
\* transfer to player_a fails with the transfer error and leaves player_a's
\* balance, custody and the record unchanged.
C16_NoPartialApplication ==
    /\ \A r \in Outcomes : r.result # Ok => r.w = World
    /\ \A m \in DOMAIN escrows :
          /\ AdminCanCall /\ ~Terminal(escrows[m].state)
          /\ escrows[m].player_a_deposited /\ escrows[m].player_b_deposited
          /\ CoversOneStake(m)
          => refund(World, m, admin) = Fail(World, ErrTransfer)

\* an escrow both players funded is refunded while the contract holds enough
\* for player_a's stake only
C16_Witness ==
    \E m \in DOMAIN escrows :
        /\ AdminCanCall /\ escrows[m].state = FullyFunded
        /\ CoversOneStake(m)
        /\ refund(World, m, admin).result = ErrTransfer

\* C17: lock_funds succeeds only from FullyFunded; it then sets the state to
\* Locked and locked_at to the current time, changes nothing else of the
\* record and moves no value.  In every other state it fails, for the admin on
\* an unpaused contract with "escrow not fully funded", and changes nothing.
C17_LockFunds ==
    /\ [](\A m \in DOMAIN escrows, caller \in Callers :
            LET e == escrows[m]
                r == lock_funds(World, m, caller)
            IN  /\ r.result = Ok =>
                     /\ e.state = FullyFunded
                     /\ r.w.escrows = [escrows EXCEPT
                                         ![m] = [e EXCEPT !.state = Locked,
                                                          !.locked_at = Some(now)]]
                     /\ r.w.balances = balances
                /\ e.state # FullyFunded =>
                     /\ r.result # Ok /\ r.w = World
                     /\ AdminCanCall /\ caller = admin => r.result = ErrNotFullyFunded)
    /\ [][\A m \in DOMAIN escrows :
            Invoked("lock_funds", m) =>
               /\ escrows[m].state = FullyFunded
               /\ escrows'[m].state = Locked
               /\ escrows'[m].locked_at = Some(now)
               /\ balances' = balances
               /\ custody(m)' = custody(m)]_vars

\* an escrow has just been locked and locking it again is rejected
C17_Witness ==
    \E m \in DOMAIN escrows :
        /\ last.op = "lock_funds" /\ last.match_id = m /\ last.from = Some(FullyFunded)
        /\ escrows[m].state = Locked
        /\ escrows[m].locked_at = Some(now)
        /\ escrows[m].created_at < now
        /\ lock_funds(World, m, admin).result = ErrNotFullyFunded

\* C18 (as claimed): a deposit by either player on a Locked escrow fails with
\* "invalid escrow state for deposit" and changes neither the deposit flags
\* nor the balances.
C18_DepositAfterLock ==
    \A m \in DOMAIN escrows :
        ~paused /\ m \notin guards /\ escrows[m].state = Locked =>
           \A p \in {escrows[m].player_a, escrows[m].player_b} :
              deposit(World, m, p, p) = Fail(World, ErrDepositState)

\* C19: mark_disputed succeeds only from Locked; it then sets the state to
\* Disputed and changes nothing else: no other field of the record, no other
\* record, no balance and no custody.  In every other state it fails, for the
\* admin with "escrow not locked", and changes nothing.
C19_MarkDisputed ==
    /\ [](\A m \in DOMAIN escrows, caller \in Callers :
            LET e == escrows[m]
                r == mark_disputed(World, m, caller)
            IN  /\ r.result = Ok =>
                     /\ e.state = Locked
                     /\ r.w = [World EXCEPT !.escrows[m].state = Disputed]
                /\ e.state # Locked =>
                     /\ r.result # Ok /\ r.w = World
                     /\ admin # NoAddress /\ caller = admin => r.result = ErrNotLocked)
    /\ [][\A m \in DOMAIN escrows :
            Invoked("mark_disputed", m) =>
               /\ escrows[m].state = Locked
               /\ escrows' = [escrows EXCEPT ![m].state = Disputed]
               /\ balances' = balances
               /\ custody(m)' = custody(m)]_vars

\* an escrow locked at an earlier time has just been marked disputed, and
\* marking it again is rejected
C19_Witness ==
    \E m \in DOMAIN escrows :
        /\ last.op = "mark_disputed" /\ last.match_id = m /\ last.from = Some(Locked)
        /\ escrows[m].state = Disputed
        /\ escrows[m].locked_at # Some(now)
        /\ custody(m) = 2 * escrows[m].amount
        /\ mark_disputed(World, m, admin).result = ErrNotLocked

\* C20: create_escrow for a match id that has a record fails, whatever the
\* players, amount and asset given and whatever the record's state, and
\* leaves every record and balance as it was; on an unpaused contract the
\* failure is "escrow already exists".  A record, once created, stays under
\* its match id with the players, amount, asset and creation time it was
\* created with, and a successful create_escrow is always for a match id
\* without a record: no record is overwritten or reset.
C20_UniqueInsert ==
    /\ [](\A m \in DOMAIN escrows, pp \in PlayerPairs, amount \in Amounts, asset \in Assets :
            LET r == create_escrow(World, m, pp[1], pp[2], amount, asset)
            IN  /\ r.result # Ok /\ r.w = World
                /\ ~paused => r.result = ErrExists)
    /\ [](\A m \in DOMAIN escrows : escrows[m].match_id = m)
    /\ [][\A m \in DOMAIN escrows :
            /\ m \in DOMAIN escrows'
            /\ escrows'[m].match_id = escrows[m].match_id
            /\ escrows'[m].player_a = escrows[m].player_a
            /\ escrows'[m].player_b = escrows[m].player_b
            /\ escrows'[m].amount = escrows[m].amount
            /\ escrows'[m].asset = escrows[m].asset
            /\ escrows'[m].created_at = escrows[m].created_at
            /\ ~Invoked("create_escrow", m)]_vars

\* an escrow has just been released, and creating it again with another
\* amount is rejected
C20_Witness ==
    \E m \in DOMAIN escrows : \E amount \in Amounts \ {0, escrows[m].amount} :
        /\ last.op = "release_to_winner" /\ last.match_id = m
        /\ escrows[m].state = Released
        /\ create_escrow(World, m, escrows[m].player_a, escrows[m].player_b,
                         amount, escrows[m].asset).result = ErrExists

\* the amounts a caller may pass to create_escrow, a negative one included
AnyAmounts == Amounts \cup {0 - 1}

\* C21: create_escrow with amount <= 0 or with player_a = player_b fails and
\* changes nothing (on an unpaused contract, for a match id without a record,
\* with "amount must be positive" resp. "players must be different"); a
\* successful create_escrow adds a record in AwaitingDeposits with both flags
\* false, created at the current time, and changes no other record and no
\* balance; every stored record has player_a # player_b and amount > 0.
C21_CreationValidity ==
    /\ [](\A m \in MatchIds, pa \in Players, pb \in Players,
             amount \in AnyAmounts, asset \in Assets :
            LET r == create_escrow(World, m, pa, pb, amount, asset)
            IN  /\ amount <= 0 \/ pa = pb =>
                     /\ r.result # Ok /\ r.w = World
                     /\ ~paused /\ m \notin DOMAIN escrows =>
                          r.result = IF amount <= 0 THEN ErrAmount ELSE ErrSamePlayer
                /\ r.result = Ok =>
                     /\ m \notin DOMAIN escrows
                     /\ DOMAIN r.w.escrows = DOMAIN escrows \cup {m}
                     /\ \A k \in DOMAIN escrows : r.w.escrows[k] = escrows[k]
                     /\ r.w.escrows[m] =
                          [match_id |-> m, player_a |-> pa, player_b |-> pb,
                           amount |-> amount, asset |-> asset,
                           state |-> AwaitingDeposits,
                           player_a_deposited |-> FALSE, player_b_deposited |-> FALSE,
                           created_at |-> now, locked_at |-> None, released_at |-> None]
                     /\ r.w.balances = balances)
    /\ [](\A m \in DOMAIN escrows :
            escrows[m].player_a # escrows[m].player_b /\ escrows[m].amount > 0)
    /\ [][\A m \in MatchIds :
            Invoked("create_escrow", m) =>
               /\ m \notin DOMAIN escrows
               /\ escrows'[m].state = AwaitingDeposits
               /\ ~escrows'[m].player_a_deposited /\ ~escrows'[m].player_b_deposited
               /\ balances' = balances
               /\ custody(m)' = custody(m)]_vars

\* a record has just been created while another match id is still free, and
\* creating that one with amount 0 or with one player twice is rejected
C21_Witness ==
    \E m \in DOMAIN escrows, k \in MatchIds \ DOMAIN escrows :
        /\ last.op = "create_escrow" /\ last.match_id = m
        /\ escrows[m].state = AwaitingDeposits
        /\ create_escrow(World, k, "alice", "bob", 0, "TOK").result = ErrAmount
        /\ create_escrow(World, k, "alice", "alice", 1, "TOK").result = ErrSamePlayer

\* C22 (as claimed): while the guard of a match is held (a guarded operation on
\* it is in progress) none of deposit, lock_funds, release_to_winner, refund,
\* mark_disputed, resolve_dispute and emergency_withdraw succeeds on that
\* match, and no call made meanwhile changes its record.
C22_GuardedMutations ==
    /\ [](\A m \in guards, p \in Winners, c \in Callers :
            /\ deposit(World, m, p, p).result # Ok
            /\ lock_funds(World, m, c).result # Ok
            /\ release_to_winner(World, m, p, c).result # Ok
            /\ refund(World, m, c).result # Ok
            /\ mark_disputed(World, m, c).result # Ok
            /\ resolve_dispute(World, m, p, c, c).result # Ok
            /\ emergency_withdraw(World, m, "carol", c).result # Ok)
    /\ [][\A m \in guards : m \in guards' => escrows'[m] = escrows[m]]_vars

\* C23: between invocations no guard is held: every invocation that completes
\* leaves the guards clear, whether it succeeded or failed (escrow not found
\* and a failed transfer after the guard was taken included), so no operation
\* invoked on a match outside a token transfer fails with "reentrancy
\* detected".
C23_GuardNeverOutlivesCall ==
    /\ [](pending = None => guards = {})
    /\ [](pending = None => \A r \in Outcomes :
                               r.w.guards = {} /\ r.result # ErrReentrancy)
    /\ [](pending # None => guards = {pending[1].match_id})
    /\ [][pending # None /\ pending' = None => guards' = {}]_vars

\* a deposit has just completed and another one, which the ledger
\* rejects, fails after taking the guard; no guard is held
C23_Witness ==
    \E m \in DOMAIN escrows, k \in DOMAIN escrows, p \in Players :
        /\ pending = None /\ guards = {}
        /\ last.op = "deposit" /\ last.match_id = m
        /\ deposit(World, k, p, p).result = ErrTransfer

\* C24: while deposit, release_to_winner, refund, resolve_dispute or
\* emergency_withdraw on match M is inside its token transfer, a call of
\* deposit, lock_funds, release_to_winner, refund, resolve_dispute or
\* emergency_withdraw on M made from a callback fails, for a caller who is
\* otherwise authorized with "reentrancy detected", and changes nothing; no
\* call made during the transfer moves value into or out of the custody of M,
\* so the outer call results in its own transfers for M only.
C24_ReentrancySafety ==
    /\ [](pending # None =>
            LET m == pending[1].match_id
            IN  \A p \in Winners, c \in Callers, t \in Recipients :
                  /\ deposit(World, m, p, p) = Fail(World, ErrReentrancy)
                  /\ lock_funds(World, m, c).result # Ok
                  /\ release_to_winner(World, m, p, c).result # Ok
                  /\ refund(World, m, c).result # Ok
                  /\ resolve_dispute(World, m, p, c, c).result # Ok
                  /\ emergency_withdraw(World, m, t, c).result # Ok
                  /\ AdminCanCall =>
                       /\ lock_funds(World, m, admin) = Fail(World, ErrReentrancy)
                       /\ release_to_winner(World, m, p, admin)
                            = Fail(World, ErrReentrancy)
                       /\ refund(World, m, admin) = Fail(World, ErrReentrancy)
                       /\ resolve_dispute(World, m, p, admin, admin)
                            = Fail(World, ErrReentrancy)
                       /\ emergency_withdraw(World, m, t, admin)
                            = Fail(World, ErrReentrancy))
    /\ [][pending # None /\ pending' = pending =>
            /\ deposited'[pending[1].match_id] = deposited[pending[1].match_id]
            /\ paid'[pending[1].match_id] = paid[pending[1].match_id]]_vars

\* release_to_winner is inside its transfer, the stored record is still Locked
\* and the contract holds enough for a second payout, and releasing again from
\* a callback is rejected
C24_Witness ==
    /\ pending # None
    /\ pending[1].op = "release_to_winner"
    /\ escrows[pending[1].match_id].state = Locked
    /\ balances[pending[1].escrow.asset][Vault] >= 2 * pending[1].escrow.amount
    /\ release_to_winner(World, pending[1].match_id, pending[1].party, admin).result
         = ErrReentrancy

\* the world with the record of match m replaced by alt (removed when alt is
\* None)
WithRecord(m, alt) ==
    [World EXCEPT !.escrows =
        [k \in IF alt = None THEN DOMAIN escrows \ {m} ELSE DOMAIN escrows \cup {m} |->
            IF k = m THEN alt[1] ELSE escrows[k]]]

\* other records match m could hold: none, its own in any state, its own with
\* any deposit flags
OtherRecords(m) ==
    {None}
    \cup (IF m \in DOMAIN escrows
          THEN {Some([escrows[m] EXCEPT !.state = s]) : s \in AwaitingDeposits..Disputed}
               \cup {Some([escrows[m] EXCEPT !.player_a_deposited = a,
                                             !.player_b_deposited = b]) :
                       a \in BOOLEAN, b \in BOOLEAN}
          ELSE {})

\* what an invocation on match m shows: its result, the balances, m's record
Observed(r, m) ==
    [result |-> r.result, events |-> r.events, balances |-> r.w.balances,
     record |-> IF m \in DOMAIN r.w.escrows THEN Some(r.w.escrows[m]) ELSE None]

\* the outcomes of the operations on match m in world w
OutcomesOn(w, m) ==
    <<Observed(create_escrow(w, m, "alice", "bob", 1, "TOK"), m),
      Observed(deposit(w, m, "alice", "alice"), m),
      Observed(deposit(w, m, "bob", "bob"), m),
      Observed(lock_funds(w, m, w.admin), m),
      Observed(release_to_winner(w, m, "alice", w.admin), m),
      Observed(refund(w, m, w.admin), m),
      Observed(mark_disputed(w, m, w.admin), m),
      Observed(resolve_dispute(w, m, "bob", w.admin, w.admin), m),
      Observed(emergency_withdraw(w, m, "carol", w.admin), m)>>

\* C25: an invocation on one match never changes the record of another (a
\* step changes at most the record of the match it was invoked on, and a
\* failed invocation changes none), and the outcome of every operation on a
\* match M2 (result, balances, M2's record) is the same whatever record
\* another match M1 holds.
C25_MatchIndependence ==
    /\ [](\A m1 \in MatchIds, m2 \in MatchIds :
            m1 # m2 =>
            \A alt \in OtherRecords(m1) :
               OutcomesOn(WithRecord(m1, alt), m2) = OutcomesOn(World, m2))
    /\ [](\A r \in Outcomes : r.result # Ok => r.w.escrows = escrows)
    /\ [][\A k \in DOMAIN escrows :
            escrows'[k] # escrows[k] => last'.match_id = k /\ last' # last]_vars

\* the first match has just been released while the second is fully funded
\* and can still be refunded
C25_Witness ==
    /\ DOMAIN escrows = MatchIds
    /\ last.op = "release_to_winner" /\ last.match_id = "m1"
    /\ escrows["m1"].state = Released
    /\ escrows["m2"].state = FullyFunded
    /\ refund(World, "m2", admin).result = Ok

\* C26 (as claimed): lock_funds, release_to_winner, refund and mark_disputed
\* pass their authorization check when the call is authorized by the admin or
\* by the registered match contract, and fail without changing anything when
\* it is authorized by anyone else.
C26_MatchContractOrAdmin ==
    \A m \in DOMAIN escrows, c \in Callers, winner \in Players :
        admin # NoAddress =>
           IF c = admin \/ c = match_contract
           THEN /\ lock_funds(World, m, c).result # ErrAuth
                /\ release_to_winner(World, m, winner, c).result # ErrAuth
                /\ refund(World, m, c).result # ErrAuth
                /\ mark_disputed(World, m, c).result # ErrAuth
           ELSE /\ lock_funds(World, m, c) = Fail(World, ErrAuth)
                /\ release_to_winner(World, m, winner, c) = Fail(World, ErrAuth)
                /\ refund(World, m, c) = Fail(World, ErrAuth)
                /\ mark_disputed(World, m, c) = Fail(World, ErrAuth)

\* C27: deposit(match_id, player) authorized by anyone other than player
\* fails and changes nothing; and whenever a step takes tokens from a player
\* or sets a player's deposit flag, that step is the deposit that player
\* authorized.
C27_DepositSelfAuthentication ==
    /\ [](\A m \in MatchIds, player \in Addresses, c \in Addresses :
             c # player =>
                /\ deposit(World, m, player, c).result # Ok
                /\ deposit(World, m, player, c).w = World)
    /\ [][\A m \in DOMAIN escrows' : \A player \in Addresses :
             LET flag_set ==
                     \/ /\ player = escrows'[m].player_a
                        /\ escrows'[m].player_a_deposited
                        /\ ~(m \in DOMAIN escrows /\ escrows[m].player_a_deposited)
                     \/ /\ player = escrows'[m].player_b
                        /\ escrows'[m].player_b_deposited
                        /\ ~(m \in DOMAIN escrows /\ escrows[m].player_b_deposited)
                 charged == \E a \in Assets :
                     balances'[a][player] < balances[a][player]
             IN  (flag_set \/ (charged /\ last'.match_id = m)) =>
                     /\ last'.op = "deposit"
                     /\ \E m2 \in MatchIds :
                           /\ deposit(World, m2, player, player).result = Ok
                           /\ deposit(World, m2, player, player).w.escrows = escrows'
                           /\ deposit(World, m2, player, player).w.balances = balances']_vars

C27_Witness ==
    /\ last.op = "deposit"
    /\ \E m \in DOMAIN escrows :
          /\ last.match_id = m
          /\ escrows[m].player_a_deposited
          /\ ~escrows[m].player_b_deposited
          /\ deposit(World, m, escrows[m].player_b, escrows[m].player_a).result = ErrAuth
          /\ deposit(World, m, escrows[m].player_b, admin).result = ErrAuth
          /\ deposit(World, m, escrows[m].player_b, escrows[m].player_b).result = Ok

\* The outcomes of the six gated operations in world w, over every input,
\* valid or not.
GatedOutcomes(w) ==
    {create_escrow(w, m, a, b, amount, asset) :
        m \in MatchIds, a \in Players, b \in Players, amount \in AnyAmounts, asset \in Assets}
    \cup {deposit(w, m, p, c) : m \in MatchIds, p \in Winners, c \in Winners}
    \cup {lock_funds(w, m, c) : m \in MatchIds, c \in Callers}
    \cup {release_to_winner(w, m, x, c) : m \in MatchIds, x \in Winners, c \in Callers}
    \cup {refund(w, m, c) : m \in MatchIds, c \in Callers}
    \cup {resolve_dispute(w, m, x, r, c) :
            m \in MatchIds, x \in Winners, r \in Resolvers, c \in Resolvers}

\* C28: while the contract is paused every call of create_escrow, deposit,
\* lock_funds, release_to_winner, refund and resolve_dispute, whatever its
\* arguments and caller, fails with "contract is paused" and changes nothing;
\* set_paused changes the pause flag and nothing else, so pausing, any number
\* of gated calls and unpausing lead back to the world before the pause, where
\* the calls have the outcomes they had.
C28_PauseGate ==
    /\ [](paused => \A r \in GatedOutcomes(World) : r = Fail(World, ErrPaused))
    /\ [](AdminCanCall =>
            LET wp == set_paused(World, TRUE, admin).w
            IN  /\ wp.paused
                /\ \A r \in GatedOutcomes(wp) : r.w = wp
                /\ set_paused(wp, FALSE, admin).w = World)
    /\ [][last'.op = "set_paused" /\ last' # last =>
            World' = [World EXCEPT !.paused = paused']]_vars

C28_Witness ==
    /\ paused
    /\ last.op = "set_paused"
    /\ \E m \in DOMAIN escrows :
          /\ lock_funds(World, m, admin) = Fail(World, ErrPaused)
          /\ lock_funds(set_paused(World, FALSE, admin).w, m, admin).result = Ok
          /\ deposit(World, m, "carol", "carol") = Fail(World, ErrPaused)
          /\ deposit(set_paused(World, FALSE, admin).w, m, "carol", "carol").result = ErrNotInMatch

\* The outcomes, in the current state, of the nine mutating operations.
MutatingOutcomes ==
    {create_escrow(World, m, pp[1], pp[2], a, s) :
        m \in MatchIds, pp \in PlayerPairs, a \in Amounts, s \in Assets}
    \cup {deposit(World, m, p, c) : m \in MatchIds, p \in Winners, c \in Winners}
    \cup {lock_funds(World, m, c) : m \in MatchIds, c \in Callers}
    \cup {release_to_winner(World, m, x, c) : m \in MatchIds, x \in Winners, c \in Callers}
    \cup {refund(World, m, c) : m \in MatchIds, c \in Callers}
    \cup {mark_disputed(World, m, c) : m \in MatchIds, c \in Callers}
    \cup {resolve_dispute(World, m, x, r, c) :
             m \in MatchIds, x \in Winners, r \in Resolvers, c \in Resolvers}
    \cup {slash_stake(World, p, a, s, c) :
             p \in Players, a \in Amounts, s \in Assets, c \in Callers}
    \cup {emergency_withdraw(World, m, t, c) :
             m \in MatchIds, t \in Recipients, c \in Callers}

\* C29 (as claimed): a call of create_escrow, deposit, lock_funds,
\* release_to_winner, refund, mark_disputed, resolve_dispute, slash_stake or
\* emergency_withdraw that succeeds emits exactly one event, and one that
\* fails emits none.
C29_AuditEvents ==
    \A r \in MutatingOutcomes :
        r.events = (IF r.result = Ok THEN 1 ELSE 0)

\* C30: slash_stake authorized by the admin fails, transferring nothing, when
\* the amount is zero or negative, when no treasury is set, or when the
\* contract's balance of the asset is below the amount; otherwise it succeeds,
\* takes exactly the amount from the contract's balance, adds it to the
\* treasury's, and leaves every escrow record and every other balance as it was.
C30_SlashStake ==
    /\ [](admin # NoAddress =>
            \A subject \in Players, amount \in AnyAmounts, asset \in Assets :
               LET r == slash_stake(World, subject, amount, asset, admin)
               IN  IF amount <= 0 THEN r = Fail(World, ErrAmount)
                   ELSE IF treasury = NoAddress THEN r = Fail(World, ErrNoTreasury)
                   ELSE IF balances[asset][Vault] < amount
                        THEN r = Fail(World, ErrSlashBalance)
                   ELSE /\ r.result = Ok
                        /\ r.w.escrows = escrows
                        /\ r.w.balances[asset][Vault] = balances[asset][Vault] - amount
                        /\ r.w.balances[asset][treasury] = balances[asset][treasury] + amount
                        /\ \A a \in Assets, h \in Holders :
                              (a # asset \/ h \notin {Vault, treasury}) =>
                                 r.w.balances[a][h] = balances[a][h]
                        /\ r.w = [World EXCEPT !.balances = r.w.balances])
    /\ [][last'.op = "slash_stake" /\ last' # last =>
            /\ escrows' = escrows
            /\ treasury # NoAddress
            /\ \E asset \in Assets, amount \in Amounts \ {0} :
                  /\ balances[asset][Vault] >= amount
                  /\ balances'[asset][Vault] = balances[asset][Vault] - amount
                  /\ balances'[asset][treasury] = balances[asset][treasury] + amount]_vars

C30_Witness ==
    /\ last.op = "slash_stake"
    /\ treasury # NoAddress
    /\ \E asset \in Assets :
          /\ balances[asset][treasury] > 0
          /\ balances[asset][Vault] = 1
          /\ slash_stake(World, "alice", 2, asset, admin) = Fail(World, ErrSlashBalance)
          /\ slash_stake(World, "alice", 0, asset, admin) = Fail(World, ErrAmount)
          /\ slash_stake(World, "alice", 1, asset, admin).result = Ok

\* C31: under a clock that never goes back, created_at never changes once the
\* record exists; locked_at and released_at each change at most once, from
\* unset to the current time; locked_at is set by lock_funds and by nothing
\* else, so it is set exactly in the records that were locked; released_at is
\* set exactly in the states Released and Refunded; and the timestamps that
\* are set are ordered created_at <= locked_at <= released_at.
C31_Timestamps ==
    /\ [](\A m \in DOMAIN escrows :
             LET e == escrows[m]
             IN  /\ e.created_at <= now
                 /\ (e.released_at # None) <=> Terminal(e.state)
                 /\ e.state \in {Locked, Disputed, Released} => e.locked_at # None
                 /\ e.state \in deposit_valid_states \cup {FullyFunded} => e.locked_at = None
                 /\ e.locked_at # None =>
                       /\ e.created_at <= e.locked_at[1]
                       /\ e.locked_at[1] <= now
                 /\ e.released_at # None =>
                       /\ e.created_at <= e.released_at[1]
                       /\ e.released_at[1] <= now
                 /\ e.locked_at # None /\ e.released_at # None =>
                       e.locked_at[1] <= e.released_at[1])
    /\ [][\A m \in DOMAIN escrows :
             /\ m \in DOMAIN escrows'
             /\ escrows'[m].created_at = escrows[m].created_at
             /\ escrows'[m].locked_at # escrows[m].locked_at =>
                   /\ escrows[m].locked_at = None
                   /\ escrows'[m].locked_at = Some(now)
                   /\ Invoked("lock_funds", m)
             /\ Invoked("lock_funds", m) /\ last' # last =>
                   escrows'[m].locked_at = Some(now) /\ escrows[m].locked_at = None
             /\ escrows'[m].released_at # escrows[m].released_at =>
                   /\ escrows[m].released_at = None
                   /\ escrows'[m].released_at = Some(now)]_vars

C31_Witness ==
    \E m \in DOMAIN escrows :
        /\ escrows[m].state = Released
        /\ escrows[m].locked_at # None
        /\ escrows[m].released_at # None
        /\ escrows[m].created_at < escrows[m].locked_at[1]
        /\ escrows[m].locked_at[1] < escrows[m].released_at[1]

\* C32: no step of any operation turns a deposit flag that is true back to
\* false: a record that exists keeps existing and each of its flags, once
\* true, stays true.
C32_FlagsMonotonic ==
    [][\A m \in DOMAIN escrows :
          /\ m \in DOMAIN escrows'
          /\ escrows[m].player_a_deposited => escrows'[m].player_a_deposited
          /\ escrows[m].player_b_deposited => escrows'[m].player_b_deposited]_vars

\* a refund and an emergency withdrawal have both gone through on a record
\* whose flags are still set
C32_Witness ==
    \E m \in DOMAIN escrows :
        /\ escrows[m].state = Refunded
        /\ escrows[m].player_a_deposited
        /\ escrows[m].player_b_deposited
        /\ paid[m] > deposited[m]
        /\ last.op = "emergency_withdraw"
        /\ last.match_id = m

\* C33: a record is stored under its own match_id, and no step of any
\* operation removes an existing record or changes its match_id, player_a,
\* player_b, amount or asset.
C33_ImmutableIdentity ==
    /\ [](\A m \in DOMAIN escrows : escrows[m].match_id = m)
    /\ [][\A m \in DOMAIN escrows :
             /\ m \in DOMAIN escrows'
             /\ escrows'[m].match_id = escrows[m].match_id
             /\ escrows'[m].player_a = escrows[m].player_a
             /\ escrows'[m].player_b = escrows[m].player_b
             /\ escrows'[m].amount = escrows[m].amount
             /\ escrows'[m].asset = escrows[m].asset]_vars

\* a record at the end of its life, after its state and flags have changed,
\* while a create_escrow with other terms on its match_id is refused
C33_Witness ==
    \E m \in DOMAIN escrows :
        /\ escrows[m].state = Released
        /\ escrows[m].amount = 1
        /\ create_escrow(World, m, escrows[m].player_b, escrows[m].player_a, 2,
                         escrows[m].asset) = Fail(World, ErrExists)

\* C34: on an initialized contract initialize fails with "already
\* initialized" for every new admin and every caller, leaving the admin and
\* everything else as they were; no step of any operation changes an admin
\* that is set; and the contract is unpaused before and right after its
\* initialization.
C34_InitializeOnce ==
    /\ [](admin # NoAddress =>
            \A a \in Addresses, c \in Addresses :
               initialize(World, a, c) = Fail(World, ErrAlreadyInitialized))
    /\ [](admin = NoAddress => ~paused)
    /\ [][/\ admin # NoAddress => admin' = admin
          /\ admin = NoAddress /\ admin' # NoAddress =>
                /\ last'.op = "initialize"
                /\ ~paused'
                /\ World' = [World EXCEPT !.admin = admin']]_vars

\* an initialized and since paused contract, where a second initialize by
\* the admin or by a newcomer is refused
C34_Witness ==
    /\ admin = "admin"
    /\ paused
    /\ initialize(World, "admin", "admin") = Fail(World, ErrAlreadyInitialized)
    /\ initialize(World, "carol", "carol") = Fail(World, ErrAlreadyInitialized)

\* C35: in every record, AwaitingDeposits goes with no flag set,
\* PlayerADeposited with player A's flag alone, PlayerBDeposited with player
\* B's flag alone, and FullyFunded, Locked, Disputed and Released with both
\* flags set; Refunded goes with any flags.
C35_StateFlagConsistency ==
    \A m \in DOMAIN escrows :
        LET e == escrows[m]
        IN  /\ e.state = AwaitingDeposits =>
                  ~e.player_a_deposited /\ ~e.player_b_deposited
            /\ e.state = PlayerADeposited =>
                  e.player_a_deposited /\ ~e.player_b_deposited
            /\ e.state = PlayerBDeposited =>
                  ~e.player_a_deposited /\ e.player_b_deposited
            /\ e.state \in {FullyFunded, Locked, Disputed, Released} =>
                  e.player_a_deposited /\ e.player_b_deposited
            /\ e.state \in {AwaitingDeposits, PlayerADeposited, PlayerBDeposited,
                            FullyFunded, Locked, Disputed, Released, Refunded}

\* two records side by side: one refunded with a single flag set, one
\* disputed with both
C35_Witness ==
    \E m1 \in DOMAIN escrows, m2 \in DOMAIN escrows :
        /\ escrows[m1].state = Refunded
        /\ escrows[m1].player_a_deposited # escrows[m1].player_b_deposited
        /\ escrows[m2].state = Disputed
        /\ escrows[m2].player_a_deposited
        /\ escrows[m2].player_b_deposited

\* what the records of the matches in S say is held for them in asset: the
\* stakes flagged as deposited in the records that are not Released/Refunded
RECURSIVE Liability(_, _)
Liability(asset, S) ==
    IF S = {} THEN 0
    ELSE LET m == CHOOSE x \in S : TRUE
             e == escrows[m]
         IN  (IF e.asset = asset /\ ~Terminal(e.state)
              THEN e.amount * FlagsTrue(e) ELSE 0)
             + Liability(asset, S \ {m})

\* C36 (as claimed): the contract's balance of every asset covers the stakes
\* flagged as deposited in the records of that asset that are not
\* Released/Refunded, and so no release_to_winner on a Locked escrow,
\* resolve_dispute on a Disputed escrow or refund on a non-terminal escrow
\* fails in its token transfer.
C36_Solvency ==
    /\ \A asset \in Assets :
          balances[asset][Vault] >= Liability(asset, DOMAIN escrows)
    /\ \A m \in DOMAIN escrows, winner \in Players, r \in Resolvers :
          /\ escrows[m].state = Locked =>
                release_to_winner(World, m, winner, admin).result # ErrTransfer
          /\ escrows[m].state = Disputed =>
                resolve_dispute(World, m, winner, r, r).result # ErrTransfer
          /\ ~Terminal(escrows[m].state) =>
                refund(World, m, admin).result # ErrTransfer

\* C37 (as claimed): an invocation authorized by an address c that is neither
\* the admin nor the registered match contract cannot create a record, and
\* can change a record or move value only as c's own deposit or, when c is an
\* authorized resolver, as c's resolution of a dispute. create_escrow takes
\* no caller: its outcome is the same whoever invokes it.
C37_AuthorizedOnly ==
    \A c \in Addresses \ {admin, match_contract} :
        /\ \A m \in MatchIds, pp \in PlayerPairs, a \in Amounts, s \in Assets :
              create_escrow(World, m, pp[1], pp[2], a, s).result # Ok
        /\ \A m \in MatchIds, p \in Addresses :
              deposit(World, m, p, c).result = Ok => p = c
        /\ \A m \in MatchIds, x \in Winners, r \in Addresses :
              /\ lock_funds(World, m, c).result # Ok
              /\ release_to_winner(World, m, x, c).result # Ok
              /\ refund(World, m, c).result # Ok
              /\ mark_disputed(World, m, c).result # Ok
              /\ emergency_withdraw(World, m, x, c).result # Ok
              /\ resolve_dispute(World, m, x, r, c).result = Ok =>
                    r = c /\ AuthorizedResolver(c)
        /\ \A p \in Players, a \in Amounts, s \in Assets :
              slash_stake(World, p, a, s, c).result # Ok

\* C38 (as claimed): while the contract is paused, from the step after
\* set_paused(true) up to the next set_paused(false), no step of any operation
\* changes any field of any record.
C38_PauseFreezesLedger ==
    [][paused /\ paused' => escrows' = escrows]_vars

\* C39 (as claimed): whenever both deposits of a stake accepted by
\* create_escrow have succeeded, twice the stake fits the signed amount type,
\* so release_to_winner on a Locked escrow and resolve_dispute on a Disputed
\* one never trap in the payout arithmetic, and a payout that succeeds pays
\* the winner exactly twice the stake.
C39_PayoutArithmetic ==
    /\ [](\A m \in DOMAIN escrows :
             escrows[m].player_a_deposited /\ escrows[m].player_b_deposited =>
                /\ ~mul_overflows(escrows[m].amount, 2)
                /\ \A winner \in Players :
                      /\ release_to_winner(World, m, winner, admin).result # ErrOverflow
                      /\ resolve_dispute(World, m, winner, admin, admin).result # ErrOverflow)
    /\ [][\A m \in DOMAIN escrows :
             (Invoked("release_to_winner", m) \/ Invoked("resolve_dispute", m))
             /\ last' # last =>
                \E winner \in Players :
                   balances'[escrows[m].asset][winner]
                      = balances[escrows[m].asset][winner] + 2 * escrows[m].amount]_vars

\* an outcome with the guards of its world left out of the comparison
Unguarded(r) == [r EXCEPT !.w.guards = {}]

\* the current world as it would be with no operation in progress
NoneInProgress == [World EXCEPT !.guards = {}]

\* C40: while an operation on match M1 is inside its token transfer and holds
\* M1's guard, no operation on another match M2 fails with "reentrancy
\* detected", and each has the result, the events and the effect on records
\* and balances it would have with no guard held; a step taken on M2 during
\* the transfer leaves M1's guard held and the operation on M1 in progress.
C40_GuardPerMatch ==
    /\ [](pending # None =>
            \A m2 \in MatchIds \ {pending[1].match_id} :
               /\ guards = {pending[1].match_id}
               /\ \A p \in Winners, c \in Callers, t \in Recipients, r \in Resolvers :
                     /\ deposit(World, m2, p, p).result # ErrReentrancy
                     /\ Unguarded(deposit(World, m2, p, p))
                          = Unguarded(deposit(NoneInProgress, m2, p, p))
                     /\ lock_funds(World, m2, c).result # ErrReentrancy
                     /\ Unguarded(lock_funds(World, m2, c))
                          = Unguarded(lock_funds(NoneInProgress, m2, c))
                     /\ release_to_winner(World, m2, p, c).result # ErrReentrancy
                     /\ Unguarded(release_to_winner(World, m2, p, c))
                          = Unguarded(release_to_winner(NoneInProgress, m2, p, c))
                     /\ refund(World, m2, c).result # ErrReentrancy
                     /\ Unguarded(refund(World, m2, c))
                          = Unguarded(refund(NoneInProgress, m2, c))
                     /\ resolve_dispute(World, m2, p, r, r).result # ErrReentrancy
                     /\ Unguarded(resolve_dispute(World, m2, p, r, r))
                          = Unguarded(resolve_dispute(NoneInProgress, m2, p, r, r))
                     /\ emergency_withdraw(World, m2, t, c).result # ErrReentrancy
                     /\ Unguarded(emergency_withdraw(World, m2, t, c))
                          = Unguarded(emergency_withdraw(NoneInProgress, m2, t, c)))
    /\ [][pending # None /\ last' # last /\ last'.match_id \in MatchIds
          /\ last'.match_id # pending[1].match_id =>
             /\ pending' = pending
             /\ guards' = guards]_vars

\* release_to_winner on one match is inside its transfer to player A, who
\* could not afford the stake of the other match before that transfer, and
\* whose deposit on the other match has gone through
C40_Witness ==
    /\ pending # None
    /\ pending[1].op = "release_to_winner"
    /\ last.op = "deposit"
    /\ \E m2 \in DOMAIN escrows :
          /\ m2 # pending[1].match_id
          /\ last.match_id = m2
          /\ escrows[m2].player_a = pending[1].party
          /\ escrows[m2].player_a_deposited
          /\ ~Terminal(escrows[m2].state)
          /\ escrows[m2].amount = MaxAmount
          /\ pending[1].escrow.amount = MaxAmount
          /\ pending[1].escrow.player_a = pending[1].party
          /\ 2 * MaxAmount > InitialBalance

====
